---------------------------- MODULE Spec2Model ----------------------------
(***************************************************************************)
(* Model of the HTX market-making engine: MarketMaker (the supervisor     *)
(* main loop), MarketData (the data feed and its asyncio tasks),          *)
(* AS2008Strategy, RiskManager and OrderManager.                          *)
(*                                                                         *)
(* Units.  Sizes and positions are integers in 1/100 contract; times are  *)
(* integers in seconds; ratios are num/den pairs.  A Python None is       *)
(* NoTime (timestamps), NoPrice (prices), NoneBook (order books) and      *)
(* NoTicker (tickers).                                                    *)
(*                                                                         *)
(* Scheduling.  Everything runs on one asyncio event loop, so a           *)
(* coroutine runs without interruption from one await that really         *)
(* suspends to the next.  The supervisor's pc is either an await point    *)
(* (AwaitPcs) or an internal point; the other coroutines step only while  *)
(* the supervisor is at an await point.                                   *)
(***************************************************************************)
EXTENDS Integers, Sequences, FiniteSets, TLC

VARIABLES
    \* ---- MarketMaker.start / stop (the supervisor coroutine)
    pc,              \* position of the supervisor coroutine
    running,         \* MarketMaker.running
    retry_count,     \* local retry_count of start()
    exc,             \* last exception that reached a handler of start()
    sleep_dur,       \* argument of the asyncio.sleep the supervisor is in
    cycle,           \* locals and request log of the current main-loop cycle
    place_i,         \* index of update_orders' loop over target_orders
    stop_tasks,      \* MarketData.stop: tasks still to cancel and await
    md_stop_ret,     \* who called MarketData.stop: "close" or "raise"
    failed_attempts, \* history: consecutive failed connection attempts
    stop_log,        \* history: what stop() has done so far
    \* ---- configuration (constructor input)
    max_orders,      \* config['max_orders']
    \* ---- the exchange
    open_orders,     \* working orders resting on the exchange
    closed,          \* exchange.close() has been called
    \* ---- MarketData
    md_running,      \* MarketData.running
    orderbook, ticker, trades,
    last_orderbook_update, last_ticker_update, last_trades_update,
    task,            \* orderbook_task, ticker_task, trades_task, monitor_task
    orphans,         \* replaced tasks: cancel requested, not yet terminated
    cancelq,         \* cancellations requested and not yet delivered (FIFO)
    feed_errors,     \* number of subscription failures so far
    slept,           \* per feed: the delay its last failure slept, 0 once
                     \* an update has succeeded since
    now,             \* datetime.now(), in seconds
    \* ---- a caller of MarketMaker.stop() other than start()
    stopper          \* position of that call, "none" if there is none

vars == << pc, running, retry_count, exc, sleep_dur, cycle, place_i,
           stop_tasks, md_stop_ret, failed_attempts, stop_log, max_orders,
           open_orders, closed, md_running, orderbook, ticker, trades,
           last_orderbook_update, last_ticker_update, last_trades_update,
           task, orphans, cancelq, feed_errors, slept, now, stopper >>

supVars == << pc, running, retry_count, exc, sleep_dur, cycle, place_i,
              stop_tasks, md_stop_ret, failed_attempts, stop_log >>
exchVars == << open_orders, closed >>
cacheVars == << orderbook, ticker, trades, last_orderbook_update,
                last_ticker_update, last_trades_update >>
taskVars == << task, orphans, cancelq >>

-----------------------------------------------------------------------------
(* Bounds of the model *)

\* the clock advances MaxTicks times
MaxTicks == 2
\* subscription failures the environment produces
MaxFeedErrors == 1
\* replaced tasks per feed whose cancellation is still undelivered
MaxOrphans == 1
\* failures of the order-book subscription, where the back-off is followed
MaxBackoffErrors == 7
\* orders in a target set handed to update_orders
MaxTargets == 2
\* orders in a set handed to check_risk
MaxRiskOrders == 3
\* inventories handed to the strategy: every tenth of a contract up to
\* MaxInventory tenths either way (the default max_position_limit is 20
\* contracts), and LargeInventory hundredths, an inventory whose
\* adjustment is more than forty times the price
MaxInventory == 120
LargeInventory == 4500000

-----------------------------------------------------------------------------
(* Program constants *)

\* MarketMaker.start
max_retries == 3
retry_delay == 5
no_orderbook_sleep == 1
\* run_strategy.main: the config dictionary (defaults)
order_update_interval == 1
config_order_size == 1
min_spread_num == 5
max_spread_num == 20
spread_den == 10000
\* MarketData.__init__
max_data_age == 10
reconnect_delay == 1
max_reconnect_delay == 30
trades_kept == 100
\* STRATEGY_CONFIG['order'] (config.py)
order_max_retries == 3
\* AS2008Strategy.__init__ (defaults)
inventory_target == 0
inventory_limit == 1000
order_size == 10
rebalance_threshold_num == 1
rebalance_threshold_den == 10
\* RiskManager.__init__
position_limit == 10000
risk_max_order_size == 1000

\* the clock advances in steps of max_data_age, so that a snapshot is seen
\* at the ages 0, max_data_age (the oldest that is served) and beyond
TickSeconds == max_data_age
MaxTime == MaxTicks * TickSeconds

NoTime == -1
NoPrice == -1
NoTicker == -1
NoneBook == [nil |-> TRUE, bids |-> << >>, asks |-> << >>]


-----------------------------------------------------------------------------
(* Values *)

Feeds == {"orderbook", "ticker", "trades"}
Kinds == Feeds \cup {"monitor"}
\* the order in which MarketData.stop collects the tasks
TaskOrder == << "orderbook", "ticker", "trades", "monitor" >>

\* exception classes as the handlers of start() tell them apart
ConnectErrors == {"AuthenticationError", "NetworkError", "ExchangeError",
                  "Exception"}

\* order books the exchange may push (prices in 1/10000, sizes in 1/100)
ValidBook == [nil |-> FALSE, bids |-> << <<1000000, 100>> >>,
              asks |-> << <<1001000, 100>> >>]
CrossedBook == [nil |-> FALSE, bids |-> << <<1001000, 100>> >>,
                asks |-> << <<1000000, 100>> >>]
LockedBook == [nil |-> FALSE, bids |-> << <<1000000, 100>> >>,
               asks |-> << <<1000000, 100>> >>]
EmptyBidsBook == [nil |-> FALSE, bids |-> << >>,
                  asks |-> << <<1001000, 100>> >>]
EmptyAsksBook == [nil |-> FALSE, bids |-> << <<1000000, 100>> >>,
                  asks |-> << >>]
\* a valid book with a wider spread
WideBook == [nil |-> FALSE, bids |-> << <<1000000, 100>> >>,
             asks |-> << <<1003000, 100>> >>]
PushedBooks == {ValidBook, CrossedBook, LockedBook, EmptyBidsBook,
                EmptyAsksBook, NoneBook}
PushedTickers == {1000500}
PushedTrades == { << 1, 2 >> }

\* replies of fetch_positions: a failure, no entry for the symbol, an entry
\* whose 'contracts' is None, or an entry with a number of contracts
Contracts == {0, 100, 110, 10010}
PositionReplies ==
    {[kind |-> k, contracts |-> 0] :
        k \in {"fail", "no_entry", "contracts_none"}}
    \cup {[kind |-> "entry", contracts |-> c] : c \in Contracts}

\* working orders found on the account when the engine starts
RestingOrder == [type |-> "limit", side |-> "buy", price |-> 990000,
                 amount |-> 1]
InitialOpenOrders == { << >>, << RestingOrder >> }
\* int(os.getenv('MAX_ORDERS', '10')): any integer
ConfigMaxOrders == {-1, 10}

Abs(x) == IF x < 0 THEN -x ELSE x
Min(a, b) == IF a <= b THEN a ELSE b
Max(a, b) == IF a >= b THEN a ELSE b
\* s[-n:]
Last(s, n) == IF Len(s) <= n THEN s ELSE SubSeq(s, Len(s) - n + 1, Len(s))

-----------------------------------------------------------------------------
(* MarketData: validation and readers *)

\* variant: a locked book (best ask = best bid) passes
validate_orderbook_LockedPasses(ob) ==
    /\ ~ob.nil
    /\ ob.bids # << >>
    /\ ob.asks # << >>
    /\ ~(ob.asks[1][1] < ob.bids[1][1])

validate_orderbook(ob) ==
    /\ ~ob.nil
    /\ ob.bids # << >>
    /\ ob.asks # << >>
    /\ ~(ob.asks[1][1] <= ob.bids[1][1])

get_orderbook ==
    IF last_orderbook_update # NoTime
          /\ now - last_orderbook_update > max_data_age
    THEN NoneBook
    ELSE orderbook

get_ticker ==
    IF last_ticker_update # NoTime
          /\ now - last_ticker_update > max_data_age
    THEN NoTicker
    ELSE ticker

\* variant: the age is taken from the ticker's timestamp
get_trades_TickerStamp ==
    IF last_ticker_update # NoTime
          /\ now - last_ticker_update > max_data_age
    THEN << >>
    ELSE trades

get_trades ==
    IF last_trades_update # NoTime
          /\ now - last_trades_update > max_data_age
    THEN << >>
    ELSE trades

-----------------------------------------------------------------------------
(* AS2008Strategy *)

\* round(x, ndigits) with ndigits = self.max_spread_ratio or
\* self.max_order_size, both float(os.getenv(...)): a float ndigits makes
\* round raise TypeError
round_raises == TRUE

Order(type, side, price, amount) ==
    [type |-> type, side |-> side, price |-> price, amount |-> amount]

\* AS2008Strategy.__init__: the state variables
NewStrategy == [current_inventory |-> 0, mid_price |-> 0, spread |-> 0]

\* calculate_optimal_quotes stores the inventory, the mid price and the
\* spread of the book before it computes the quotes
stored_by_quotes(ob, current_position) ==
    [current_inventory |-> current_position,
     mid_price |-> (ob.bids[1][1] + ob.asks[1][1]) \div 2,
     spread |-> ob.asks[1][1] - ob.bids[1][1]]

\* the quotes before rounding; prices in 1/10000, position in 1/100;
\* kappa = alpha = gamma = sigma = delta = 0.1, max_spread_ratio = 0.01,
\* min_profit_ratio = 0.0005
unrounded_quotes(ob, current_position) ==
    LET best_bid == ob.bids[1][1]
        best_ask == ob.asks[1][1]
        mid_price == (best_bid + best_ask) \div 2
        inventory_adjustment == 10 * current_position
        risk_adjustment == current_position \div 10
        spread == 2010
        bid0 == mid_price - spread \div 2 - inventory_adjustment
                    - risk_adjustment
        ask0 == mid_price + spread \div 2 - inventory_adjustment
                    - risk_adjustment
        bid1 == Max(bid0, (best_bid * 99) \div 100)
        ask1 == Min(ask0, (best_ask * 101) \div 100)
        \* (ask1 - bid1) / bid1 < 0.0005, with bid1 > 0
        narrow == ask1 - bid1 <= (5 * bid1 - 1) \div 10000
        spread2 == (5 * bid1) \div 10000
    IN  IF narrow
        THEN [bid |-> mid_price - spread2 \div 2,
              ask |-> mid_price + spread2 \div 2]
        ELSE [bid |-> bid1, ask |-> ask1]

\* variant: the inventory is averaged with the one the last call stored
quoted_prices_StoredInventory(self, ob, current_position) ==
    unrounded_quotes(ob, (current_position + self.current_inventory) \div 2)

\* bid_price and ask_price as calculate_optimal_quotes computes them on
\* the strategy object self: from its arguments and the parameters alone
quoted_prices(self, ob, current_position) ==
    unrounded_quotes(ob, current_position)

NoQuote == [bid |-> NoPrice, ask |-> NoPrice]

calculate_optimal_quotes(ob, current_position) ==
    IF round_raises
    THEN << >>
    ELSE LET q == unrounded_quotes(ob, current_position)
         IN  << Order("limit", "buy", q.bid, order_size),
                Order("limit", "sell", q.ask, order_size) >>

\* variant: a deviation equal to the threshold triggers rebalancing
should_rebalance_AtThreshold(current_position) ==
    Abs(current_position - inventory_target) * rebalance_threshold_den
        >= rebalance_threshold_num * inventory_limit

should_rebalance(current_position) ==
    Abs(current_position - inventory_target) * rebalance_threshold_den
        > rebalance_threshold_num * inventory_limit

\* variant: one market order of the size the risk gate admits
calculate_rebalance_orders_OneMarketOrder(current_position) ==
    << Order("market",
             IF inventory_target - current_position > 0
             THEN "buy" ELSE "sell",
             NoPrice, config_order_size) >>

calculate_rebalance_orders(current_position) ==
    LET position_diff == inventory_target - current_position
        side == IF position_diff > 0 THEN "buy" ELSE "sell"
        num_orders == Abs(position_diff) \div order_size
    IN  IF num_orders = 0 \/ round_raises
        THEN << >>
        ELSE [i \in 1..num_orders |->
                 Order("limit", side, NoPrice, order_size)]

-----------------------------------------------------------------------------
(* RiskManager *)

Prices(orders, side) ==
    {orders[i].price : i \in {j \in 1..Len(orders) : orders[j].side = side}}
MaxOf(S) == CHOOSE x \in S : \A y \in S : y <= x
MinOf(S) == CHOOSE x \in S : \A y \in S : x <= y

\* TRUE iff the order set passes; an exception inside the check (a price
\* of None, a best bid of 0) is caught and answers False
check_risk(orders) ==
    LET bids == Prices(orders, "buy")
        asks == Prices(orders, "sell")
    IN  /\ ~(Len(orders) > max_orders)
        /\ \A i \in 1..Len(orders) : ~(orders[i].amount > config_order_size)
        /\ (bids # {} /\ asks # {}) =>
              /\ NoPrice \notin (bids \cup asks)
              /\ MaxOf(bids) # 0
              /\ ~((MinOf(asks) - MaxOf(bids)) * spread_den
                       < min_spread_num * MaxOf(bids))
              /\ ~((MinOf(asks) - MaxOf(bids)) * spread_den
                       > max_spread_num * MaxOf(bids))

\* variant: a set of exactly max_orders orders is refused for its count
check_risk_reason_CountAtLimit(orders) ==
    LET bids == Prices(orders, "buy")
        asks == Prices(orders, "sell")
    IN  IF Len(orders) >= max_orders
        THEN "Too many orders"
        ELSE IF \E i \in 1..Len(orders) :
                    orders[i].amount > config_order_size
        THEN "Order size too large"
        ELSE IF bids = {} \/ asks = {}
        THEN "none"
        ELSE IF NoPrice \in (bids \cup asks) \/ MaxOf(bids) = 0
        THEN "Error in risk check"
        ELSE IF (MinOf(asks) - MaxOf(bids)) * spread_den
                    < min_spread_num * MaxOf(bids)
        THEN "Spread too small"
        ELSE IF (MinOf(asks) - MaxOf(bids)) * spread_den
                    > max_spread_num * MaxOf(bids)
        THEN "Spread too large"
        ELSE "none"

\* variant: the sizes are checked before the count
check_risk_reason_SizeFirst(orders) ==
    LET bids == Prices(orders, "buy")
        asks == Prices(orders, "sell")
    IN  IF \E i \in 1..Len(orders) :
               orders[i].amount > config_order_size
        THEN "Order size too large"
        ELSE IF Len(orders) > max_orders
        THEN "Too many orders"
        ELSE IF bids = {} \/ asks = {}
        THEN "none"
        ELSE IF NoPrice \in (bids \cup asks) \/ MaxOf(bids) = 0
        THEN "Error in risk check"
        ELSE IF (MinOf(asks) - MaxOf(bids)) * spread_den
                    < min_spread_num * MaxOf(bids)
        THEN "Spread too small"
        ELSE IF (MinOf(asks) - MaxOf(bids)) * spread_den
                    > max_spread_num * MaxOf(bids)
        THEN "Spread too large"
        ELSE "none"

\* what check_risk logs before it answers False: the warning of the first
\* check that fails, or the error of an exception raised on the way (a
\* price of None or a best bid of 0 in the spread); "none" when it
\* answers True
check_risk_reason(orders) ==
    LET bids == Prices(orders, "buy")
        asks == Prices(orders, "sell")
    IN  IF Len(orders) > max_orders
        THEN "Too many orders"
        ELSE IF \E i \in 1..Len(orders) :
                    orders[i].amount > config_order_size
        THEN "Order size too large"
        ELSE IF bids = {} \/ asks = {}
        THEN "none"
        ELSE IF NoPrice \in (bids \cup asks) \/ MaxOf(bids) = 0
        THEN "Error in risk check"
        ELSE IF (MinOf(asks) - MaxOf(bids)) * spread_den
                    < min_spread_num * MaxOf(bids)
        THEN "Spread too small"
        ELSE IF (MinOf(asks) - MaxOf(bids)) * spread_den
                    > max_spread_num * MaxOf(bids)
        THEN "Spread too large"
        ELSE "none"

check_position_risk(position) == ~(Abs(position) > position_limit)


-----------------------------------------------------------------------------
(* OrderManager *)

\* create_order raises ValueError before calling the exchange for a limit
\* order without a price ("if not price": None or 0)
reaches_exchange(order) ==
    ~(order.type = "limit" /\ order.price \in {NoPrice, 0})

\* variant: update_orders returns after the first reply
next_place_Return(target_orders, i) == Len(target_orders) + 1

\* index of the first order from i on for which update_orders awaits
\* exchange.create_order; Len + 1 when the loop is over
RECURSIVE next_place(_, _)
next_place(target_orders, i) ==
    IF i > Len(target_orders) THEN i
    ELSE IF reaches_exchange(target_orders[i]) THEN i
    ELSE next_place(target_orders, i + 1)

-----------------------------------------------------------------------------
(* MarketMaker: the exception handlers of start() *)

\* market_maker.py imports "ccxt.pro as ccxtpro" and names from ccxt: the
\* name ccxt, which the inner handlers use, is not bound in the module
ccxt_bound == FALSE

\* variant: no clause for AuthenticationError, which is an ExchangeError
OuterExcept_AuthRetried(e, rc) ==
    IF e \in {"AuthenticationError", "NetworkError", "ExchangeError"}
    THEN IF rc + 1 < max_retries
         THEN [next |-> "sleep_connect", rc |-> rc + 1]
         ELSE [next |-> "stop", rc |-> rc + 1]
    ELSE [next |-> "stop", rc |-> rc]

\* variant: the connection-error handler does not count the attempt
OuterExcept_NotCounted(e, rc) ==
    IF e = "AuthenticationError"
    THEN [next |-> "stop", rc |-> rc]
    ELSE IF e \in {"NetworkError", "ExchangeError"}
    THEN IF rc + 1 < max_retries
         THEN [next |-> "sleep_connect", rc |-> rc]
         ELSE [next |-> "stop", rc |-> rc]
    ELSE [next |-> "stop", rc |-> rc]

\* variant: an authentication failure returns from start() at once
OuterExcept_AuthReturns(e, rc) ==
    IF e = "AuthenticationError"
    THEN [next |-> "stopped", rc |-> rc]
    ELSE IF e \in {"NetworkError", "ExchangeError"}
    THEN IF rc + 1 < max_retries
         THEN [next |-> "sleep_connect", rc |-> rc + 1]
         ELSE [next |-> "stop", rc |-> rc + 1]
    ELSE [next |-> "stop", rc |-> rc]

\* the handlers of the outer try: what start() does next
OuterExcept(e, rc) ==
    IF e = "AuthenticationError"
    THEN [next |-> "stop", rc |-> rc]
    ELSE IF e \in {"NetworkError", "ExchangeError"}
    THEN IF rc + 1 < max_retries
         THEN [next |-> "sleep_connect", rc |-> rc + 1]
         ELSE [next |-> "stop", rc |-> rc + 1]
    ELSE [next |-> "stop", rc |-> rc]

\* the handlers of the inner try; evaluating "except ccxt.NetworkError"
\* raises NameError, which leaves the inner try for the outer handlers
InnerExcept(e, rc) ==
    IF ccxt_bound
    THEN [next |-> "sleep_retry", rc |-> rc, exc |-> e]
    ELSE [next |-> OuterExcept("NameError", rc).next,
          rc |-> OuterExcept("NameError", rc).rc, exc |-> "NameError"]

-----------------------------------------------------------------------------
(* The supervisor coroutine: MarketMaker.start and MarketMaker.stop *)

SleepPcs == {"sleep_no_orderbook", "sleep_interval", "sleep_retry",
             "sleep_connect"}
AwaitPcs == SleepPcs \cup
            {"load_markets", "validate_connection", "fetch_positions",
             "fetch_open_orders", "cancel_all_orders", "create_order",
             "stop_cancel_all", "md_stop_await", "close", "stopped",
             "runner_cancel_all", "runner_close", "exited"}
Suspended == pc \in AwaitPcs

NoCycle == [orderbook |-> NoneBook, current_position |-> 0,
            target_orders |-> << >>, verdict |-> "none",
            position_queried |-> FALSE, strategy_evaluated |-> FALSE,
            open_queried |-> FALSE, cancel_sent |-> FALSE,
            place_sent |-> FALSE, orders_before |-> << >>,
            current_orders |-> << >>, request_failed |-> FALSE,
            cancelled |-> << >>, placed |-> << >>, attempts |-> 0,
            called |-> "none", quoted |-> NoQuote,
            self_before |-> NewStrategy, stored |-> NewStrategy,
            reason |-> "none", positions |-> "none", raised |-> "none"]

SleepFor(p) ==
    IF p = "sleep_no_orderbook" THEN no_orderbook_sleep
    ELSE IF p = "sleep_interval" THEN order_update_interval
    ELSE IF p \in {"sleep_retry", "sleep_connect"} THEN retry_delay
    ELSE 0

\* go to p, noting the sleep's argument when p is a sleep
Goto(p) == pc' = p /\ sleep_dur' = SleepFor(p)

\* start(): running = True, retry_count = 0, enter the retry loop
Start ==
    /\ pc = "init"
    /\ running' = TRUE
    /\ retry_count' = 0
    /\ Goto("outer_top")
    /\ UNCHANGED << exc, cycle, place_i, stop_tasks, md_stop_ret,
                    failed_attempts, stop_log, max_orders,
                    stopper >>
    /\ UNCHANGED << exchVars, md_running, cacheVars, taskVars, feed_errors, slept,
                    now >>

\* while retry_count < max_retries: await load_markets(); else stop()
OuterTop ==
    /\ pc = "outer_top"
    /\ Goto(IF retry_count < max_retries THEN "load_markets" ELSE "stop")
    /\ UNCHANGED << running, retry_count, exc, cycle, place_i, stop_tasks,
                    md_stop_ret, failed_attempts, stop_log, max_orders,
                    stopper >>
    /\ UNCHANGED << exchVars, md_running, cacheVars, taskVars, feed_errors, slept,
                    now >>

\* an exception e of a connection attempt reaches the outer handlers
ConnectFailed(e) ==
    /\ exc' = e
    /\ retry_count' = OuterExcept(e, retry_count).rc
    /\ failed_attempts' = failed_attempts + 1
    /\ Goto(OuterExcept(e, retry_count).next)

\* await self.exchange.load_markets()
LoadMarkets(reply) ==
    /\ pc = "load_markets"
    /\ IF reply = "ok"
       THEN /\ Goto("validate_connection")
            /\ UNCHANGED << exc, retry_count, failed_attempts >>
       ELSE ConnectFailed(reply)
    /\ UNCHANGED << running, cycle, place_i, stop_tasks, md_stop_ret,
                    stop_log, max_orders,
                    stopper >>
    /\ UNCHANGED << exchVars, md_running, cacheVars, taskVars, feed_errors, slept,
                    now >>

\* variant: validate_connection logs the error and does not re-raise it
ValidateConnection_Swallows(reply) ==
    /\ pc = "validate_connection"
    /\ Goto("md_start")
    /\ UNCHANGED << exc, retry_count, failed_attempts >>
    /\ UNCHANGED << running, cycle, place_i, stop_tasks, md_stop_ret,
                    stop_log, max_orders,
                    stopper >>
    /\ UNCHANGED << exchVars, md_running, cacheVars, taskVars, feed_errors, slept,
                    now >>

\* await self.validate_connection(): fetch_balance, any error re-raised
ValidateConnection(reply) ==
    /\ pc = "validate_connection"
    /\ IF reply = "ok"
       THEN /\ Goto("md_start")
            /\ UNCHANGED << exc, retry_count, failed_attempts >>
       ELSE ConnectFailed(reply)
    /\ UNCHANGED << running, cycle, place_i, stop_tasks, md_stop_ret,
                    stop_log, max_orders,
                    stopper >>
    /\ UNCHANGED << exchVars, md_running, cacheVars, taskVars, feed_errors, slept,
                    now >>


NewTask == [st |-> "run", retry_delay |-> reconnect_delay]
NoTask == [st |-> "none", retry_delay |-> reconnect_delay]

\* variant: the monitor task is left to end by itself
CollectedTasks_NoMonitor ==
    SelectSeq(<< "orderbook", "ticker", "trades" >>,
              LAMBDA k : task[k].st # "none")

\* the tasks MarketData.stop collects: every task attribute that is set
CollectedTasks == SelectSeq(TaskOrder, LAMBDA k : task[k].st # "none")

\* await self.market_data.start(), then get_market_info and
\* retry_count = 0.  start() sets running, looks the symbol up with
\* exchange.market() and creates the four tasks; if the lookup raises, it
\* calls self.stop() and re-raises.
MdStart(reply) ==
    /\ pc = "md_start"
    /\ IF reply = "ok"
       THEN /\ md_running' = TRUE
            /\ task' = [k \in Kinds |-> NewTask]
            /\ retry_count' = 0
            /\ failed_attempts' = 0
            /\ Goto("loop_top")
            /\ UNCHANGED << exc, stop_tasks, md_stop_ret >>
       ELSE /\ md_running' = FALSE
            /\ stop_tasks' = CollectedTasks
            /\ md_stop_ret' = "raise"
            /\ exc' = reply
            /\ Goto("md_stop_next")
            /\ UNCHANGED << task, retry_count, failed_attempts >>
    /\ UNCHANGED << running, cycle, place_i, stop_log, max_orders,
                    stopper >>
    /\ UNCHANGED << exchVars, cacheVars, orphans, cancelq, feed_errors, slept,
                    now >>

\* s without its leading tasks that are done ("if not task.done()")
RECURSIVE SkipDone(_)
SkipDone(s) ==
    IF s = << >> THEN s
    ELSE IF task[Head(s)].st = "done" THEN SkipDone(Tail(s))
    ELSE s

\* MarketData.stop, the loop over the collected tasks: cancel the next
\* task that is not done and await it; after the last one, return to the
\* caller (MarketMaker.stop, or the handler of MarketData.start)
MdStopNext ==
    /\ pc = "md_stop_next"
    /\ LET rest == SkipDone(stop_tasks)
       IN  IF rest # << >>
           THEN /\ stop_tasks' = rest
                /\ task' = [task EXCEPT ![Head(rest)].st = "cancelling"]
                /\ cancelq' = IF task[Head(rest)].st = "cancelling"
                              THEN cancelq
                              ELSE Append(cancelq, << Head(rest), "task" >>)
                /\ Goto("md_stop_await")
                /\ UNCHANGED << exc, retry_count, failed_attempts,
                                stop_log >>
           ELSE /\ stop_tasks' = << >>
                /\ UNCHANGED << task, cancelq >>
                /\ IF md_stop_ret \in {"close", "runner"}
                   THEN /\ Goto(IF md_stop_ret = "close" THEN "close"
                                ELSE "runner_close")
                        /\ stop_log' = [stop_log EXCEPT !.md_stopped = TRUE]
                        /\ UNCHANGED << exc, retry_count, failed_attempts >>
                   ELSE /\ ConnectFailed(exc)
                        /\ UNCHANGED stop_log
    /\ UNCHANGED << running, cycle, place_i, md_stop_ret, max_orders,
                    stopper >>
    /\ UNCHANGED << exchVars, md_running, cacheVars, orphans, feed_errors, slept,
                    now >>

\* variant: the cancelled task is not awaited
Awaited_NoWait(k) == TRUE

\* "await task" returns once the task has terminated
Awaited(k) == task[k].st = "done"

\* MarketData.stop: the awaited task has terminated, the loop goes on
MdStopAwait ==
    /\ pc = "md_stop_await"
    /\ Awaited(Head(stop_tasks))
    /\ stop_tasks' = Tail(stop_tasks)
    /\ Goto("md_stop_next")
    /\ UNCHANGED << running, retry_count, exc, cycle, place_i, md_stop_ret,
                    failed_attempts, stop_log, max_orders,
                    stopper >>
    /\ UNCHANGED << exchVars, md_running, cacheVars, taskVars, feed_errors, slept,
                    now >>

\* variant: the cycle goes on without an order book
AfterOrderbook_NoSkip(ob) == "fetch_positions"

\* "if not orderbook: ... sleep(1); continue"
AfterOrderbook(ob) ==
    IF ob.nil THEN "sleep_no_orderbook" ELSE "fetch_positions"

\* "while self.running:", then get_orderbook(); without an order book the
\* cycle sleeps 1 s and continues, else it awaits get_positions()
LoopTop ==
    /\ pc = "loop_top"
    /\ IF ~running
       THEN /\ Goto("outer_top")
            /\ UNCHANGED cycle
       ELSE /\ cycle' = [NoCycle EXCEPT !.orderbook = get_orderbook,
                                        !.orders_before = open_orders]
            /\ Goto(AfterOrderbook(get_orderbook))
    /\ UNCHANGED << running, retry_count, exc, place_i, stop_tasks,
                    md_stop_ret, failed_attempts, stop_log, max_orders,
                    stopper >>
    /\ UNCHANGED << exchVars, md_running, cacheVars, taskVars, feed_errors, slept,
                    now >>

\* the value of float(positions.get(symbol, {}).get('contracts', 0)):
\* get_positions answers {} when fetch_positions fails
\* variant: an unknown position counts as the inventory limit
PositionOf_AtLimit(reply) ==
    IF reply.kind \in {"fail", "no_entry"}
    THEN inventory_limit ELSE reply.contracts

PositionOf(reply) ==
    IF reply.kind \in {"fail", "no_entry"} THEN 0 ELSE reply.contracts

\* variant: the engine always quotes
StrategyBranch_AlwaysQuotes(current_position) == "calculate_optimal_quotes"

\* "if self.strategy.should_rebalance(current_position): ... else: ...":
\* the strategy method the cycle calls for its target set
StrategyBranch(current_position) ==
    IF should_rebalance(current_position)
    THEN "calculate_rebalance_orders"
    ELSE "calculate_optimal_quotes"

\* the target set of a cycle
TargetOrders(ob, current_position) ==
    IF StrategyBranch(current_position) = "calculate_rebalance_orders"
    THEN calculate_rebalance_orders(current_position)
    ELSE calculate_optimal_quotes(ob, current_position)

\* the main loop's risk gate: the verdict on the cycle's target set
RiskGate(target_orders) ==
    IF check_risk(target_orders) THEN "accepted" ELSE "rejected"

\* variant: the verdict is logged and the orders are updated anyway
AfterRiskCheck_NoSkip(verdict) == "fetch_open_orders"

\* "if not self.risk_manager.check_risk(target_orders): ... continue",
\* else "await self.order_manager.update_orders(target_orders)"
AfterRiskCheck(verdict) ==
    IF verdict = "accepted" THEN "fetch_open_orders" ELSE "loop_top"

\* cycle.called, cycle.quoted and cycle.stored record the strategy method
\* the cycle called, the prices it computed before rounding and what it
\* stored on the strategy object (current_inventory, mid_price, spread);
\* the main loop only logs the stored values (get_market_metrics), they
\* are kept for the cycle.
\* cycle.positions records whether get_positions answered an empty
\* mapping or one with an entry for the symbol.
\* get_positions() returns; current_position, should_rebalance, the
\* strategy, check_risk; a rejected set continues the loop at once, an
\* accepted one enters update_orders, which awaits get_open_orders()
FetchPositions(reply) ==
    /\ pc = "fetch_positions"
    /\ IF reply.kind = "contracts_none"
       THEN \* float(None) raises TypeError inside the inner try
            /\ cycle' = [cycle EXCEPT !.position_queried = TRUE,
                                      !.positions = "entry",
                                      !.raised = "TypeError"]
            /\ exc' = InnerExcept("TypeError", retry_count).exc
            /\ retry_count' = InnerExcept("TypeError", retry_count).rc
            /\ Goto(InnerExcept("TypeError", retry_count).next)
       ELSE LET position == PositionOf(reply)
                quotes == StrategyBranch(position)
                              = "calculate_optimal_quotes"
                target == TargetOrders(cycle.orderbook, position)
                verdict == RiskGate(target)
            IN  /\ cycle' = [cycle EXCEPT !.position_queried = TRUE,
                                          !.positions =
                                              IF reply.kind
                                                   \in {"fail", "no_entry"}
                                              THEN "empty" ELSE "entry",
                                          !.current_position = position,
                                          !.strategy_evaluated = TRUE,
                                          !.called = StrategyBranch(position),
                                          !.quoted =
                                              IF quotes
                                              THEN quoted_prices(
                                                       cycle.stored,
                                                       cycle.orderbook,
                                                       position)
                                              ELSE NoQuote,
                                          !.stored =
                                              IF quotes
                                              THEN stored_by_quotes(
                                                       cycle.orderbook,
                                                       position)
                                              ELSE @,
                                          !.target_orders = target,
                                          !.verdict = verdict,
                                          !.reason =
                                              check_risk_reason(target)]
                /\ Goto(AfterRiskCheck(verdict))
                /\ UNCHANGED << exc, retry_count >>
    /\ UNCHANGED << running, place_i, stop_tasks, md_stop_ret,
                    failed_attempts, stop_log, max_orders,
                    stopper >>
    /\ UNCHANGED << exchVars, md_running, cacheVars, taskVars, feed_errors, slept,
                    now >>

\* OrderManager.update_orders, one exchange reply at a time: the open-order
\* query (a failure reads as no orders), cancel-all if there were any, then
\* create_order for each target order; every exception is caught inside.
\* Then get_market_metrics and the sleep of order_update_interval.
\* cycle.cancelled, placed and attempts record the requests issued: the
\* orders cancel-all was sent for, the orders a place request was sent for,
\* and the requests sent so far for the operation in progress.
UpdateOrdersStep(reply) ==
    /\ pc \in {"fetch_open_orders", "cancel_all_orders", "create_order"}
    /\ LET current_orders ==
               IF pc = "fetch_open_orders" /\ reply = "ok"
               THEN open_orders ELSE << >>
           cancels == pc = "fetch_open_orders" /\ current_orders # << >>
           from == IF pc = "create_order" THEN place_i + 1 ELSE 1
           j == next_place(cycle.target_orders, from)
           places == ~cancels /\ j <= Len(cycle.target_orders)
       IN  /\ open_orders' =
                  IF pc = "cancel_all_orders" /\ reply = "ok" THEN << >>
                  ELSE IF pc = "create_order" /\ reply = "ok"
                  THEN Append(open_orders, cycle.target_orders[place_i])
                  ELSE open_orders
           /\ cycle' = [cycle EXCEPT
                           !.open_queried = TRUE,
                           !.current_orders =
                               IF pc = "fetch_open_orders"
                               THEN current_orders ELSE @,
                           !.request_failed = @ \/ reply = "fail",
                           !.cancel_sent = @ \/ cancels,
                           !.cancelled =
                               IF cancels THEN current_orders ELSE @,
                           !.place_sent = @ \/ places,
                           !.attempts =
                               IF cancels \/ places THEN 1 ELSE @,
                           !.placed =
                               IF places
                               THEN Append(@, cycle.target_orders[j])
                               ELSE @]
           /\ place_i' = IF places THEN j ELSE place_i
           /\ Goto(IF cancels THEN "cancel_all_orders"
                   ELSE IF places THEN "create_order"
                   ELSE "sleep_interval")
    /\ UNCHANGED << running, retry_count, exc, stop_tasks, md_stop_ret,
                    failed_attempts, stop_log, max_orders,
                    stopper >>
    /\ UNCHANGED << closed, md_running, cacheVars, taskVars, feed_errors, slept,
                    now >>

\* an asyncio.sleep of the supervisor returns: the connection retry goes
\* back to the retry loop, the others to the main loop
Wake ==
    /\ pc \in SleepPcs
    /\ Goto(IF pc = "sleep_connect" THEN "outer_top" ELSE "loop_top")
    /\ UNCHANGED << running, retry_count, exc, cycle, place_i, stop_tasks,
                    md_stop_ret, failed_attempts, stop_log, max_orders,
                    stopper >>
    /\ UNCHANGED << exchVars, md_running, cacheVars, taskVars, feed_errors, slept,
                    now >>

\* stop(): running = False, await order_manager.cancel_all_orders()
Stop ==
    /\ pc = "stop"
    /\ running' = FALSE
    /\ stop_log' = [stop_log EXCEPT !.cancel_attempted = TRUE]
    /\ Goto("stop_cancel_all")
    /\ UNCHANGED << retry_count, exc, cycle, place_i, stop_tasks,
                    md_stop_ret, failed_attempts, max_orders,
                    stopper >>
    /\ UNCHANGED << exchVars, md_running, cacheVars, taskVars, feed_errors, slept,
                    now >>

\* cancel_all_orders() returns (an error is caught and logged); then
\* market_data.stop(): running = False and the tasks are collected
StopCancelAll(reply) ==
    /\ pc = "stop_cancel_all"
    /\ open_orders' = IF reply = "ok" THEN << >> ELSE open_orders
    /\ md_running' = FALSE
    /\ stop_tasks' = CollectedTasks
    /\ md_stop_ret' = "close"
    /\ Goto("md_stop_next")
    /\ UNCHANGED << running, retry_count, exc, cycle, place_i,
                    failed_attempts, stop_log, max_orders,
                    stopper >>
    /\ UNCHANGED << closed, cacheVars, taskVars, feed_errors, slept, now >>

\* await self.exchange.close(); stop() and start() return
Close ==
    /\ pc = "close"
    /\ closed' = TRUE
    /\ Goto("stopped")
    /\ UNCHANGED << running, retry_count, exc, cycle, place_i, stop_tasks,
                    md_stop_ret, failed_attempts, stop_log, max_orders,
                    stopper >>
    /\ UNCHANGED << open_orders, md_running, cacheVars, taskVars,
                    feed_errors, slept, now >>


-----------------------------------------------------------------------------
(* run_strategy.main: after start() has returned, the finally clause calls
   market_maker.stop() once more *)

\* finally: await market_maker.stop(): running = False, then
\* cancel_all_orders() is awaited
RunnerStop ==
    /\ pc = "stopped"
    /\ running' = FALSE
    /\ Goto("runner_cancel_all")
    /\ UNCHANGED << retry_count, exc, cycle, place_i, stop_tasks,
                    md_stop_ret, failed_attempts, stop_log, max_orders,
                    stopper >>
    /\ UNCHANGED << exchVars, md_running, cacheVars, taskVars, feed_errors, slept,
                    now >>

\* the second cancel_all_orders() returns; then market_data.stop()
RunnerCancelAll(reply) ==
    /\ pc = "runner_cancel_all"
    /\ open_orders' = IF reply = "ok" THEN << >> ELSE open_orders
    /\ md_running' = FALSE
    /\ stop_tasks' = CollectedTasks
    /\ md_stop_ret' = "runner"
    /\ Goto("md_stop_next")
    /\ UNCHANGED << running, retry_count, exc, cycle, place_i,
                    failed_attempts, stop_log, max_orders,
                    stopper >>
    /\ UNCHANGED << closed, cacheVars, taskVars, feed_errors, slept, now >>

\* the second exchange.close() returns; main() returns
RunnerClose ==
    /\ pc = "runner_close"
    /\ closed' = TRUE
    /\ Goto("exited")
    /\ UNCHANGED << running, retry_count, exc, cycle, place_i, stop_tasks,
                    md_stop_ret, failed_attempts, stop_log, max_orders,
                    stopper >>
    /\ UNCHANGED << open_orders, md_running, cacheVars, taskVars,
                    feed_errors, slept, now >>

-----------------------------------------------------------------------------
(* MarketData: the subscription tasks and the monitor task *)

\* variant: the loop body runs once ("if" for "while")
LoopOrExit_Once == "done"

\* "while self.running" at the top of a task's loop
LoopOrExit == IF md_running THEN "run" ELSE "done"

\* watch_orderbook: a push arrives; a valid book replaces the snapshot and
\* its timestamp and resets the delay, an invalid one is only logged
WatchOrderbook(book) ==
    /\ Suspended
    /\ task["orderbook"].st = "run"
    /\ IF validate_orderbook(book)
       THEN /\ orderbook' = book
            /\ last_orderbook_update' = now
            /\ task' = [task EXCEPT
                           !["orderbook"] = [st |-> LoopOrExit,
                                             retry_delay |-> reconnect_delay]]
            /\ slept' = [slept EXCEPT !["orderbook"] = 0]
       ELSE /\ UNCHANGED << orderbook, last_orderbook_update, slept >>
            /\ task' = [task EXCEPT !["orderbook"].st = LoopOrExit]
    /\ UNCHANGED << supVars, max_orders, stopper, exchVars, md_running, ticker,
                    trades, last_ticker_update, last_trades_update, orphans,
                    cancelq, feed_errors, now >>

\* variant: the snapshot is stored, the timestamp after a suspension
WatchTicker_SnapshotFirst(t) ==
    /\ Suspended
    /\ task["ticker"].st = "run"
    /\ ticker' = t
    /\ UNCHANGED << supVars, max_orders, stopper, exchVars, md_running, orderbook,
                    trades, last_orderbook_update, last_ticker_update,
                    last_trades_update, taskVars, feed_errors, slept, now >>

\* watch_ticker: a push arrives
WatchTicker(t) ==
    /\ Suspended
    /\ task["ticker"].st = "run"
    /\ ticker' = t
    /\ last_ticker_update' = now
    /\ task' = [task EXCEPT !["ticker"] = [st |-> LoopOrExit,
                                           retry_delay |-> reconnect_delay]]
    /\ slept' = [slept EXCEPT !["ticker"] = 0]
    /\ UNCHANGED << supVars, max_orders, stopper, exchVars, md_running, orderbook,
                    trades, last_orderbook_update, last_trades_update,
                    orphans, cancelq, feed_errors, now >>

\* watch_trades: a push arrives; the last 100 trades are kept
WatchTrades(ts) ==
    /\ Suspended
    /\ task["trades"].st = "run"
    /\ trades' = Last(ts, trades_kept)
    /\ last_trades_update' = now
    /\ task' = [task EXCEPT !["trades"] = [st |-> LoopOrExit,
                                           retry_delay |-> reconnect_delay]]
    /\ slept' = [slept EXCEPT !["trades"] = 0]
    /\ UNCHANGED << supVars, max_orders, stopper, exchVars, md_running, orderbook,
                    ticker, last_orderbook_update, last_ticker_update,
                    orphans, cancelq, feed_errors, now >>

\* a subscription raises (network, exchange or other error): the task
\* sleeps retry_delay; the environment produces at most n failures
WatchErrorUpTo(k, n) ==
    /\ Suspended
    /\ task[k].st = "run"
    /\ feed_errors < n
    /\ feed_errors' = feed_errors + 1
    /\ task' = [task EXCEPT ![k].st = "sleep"]
    /\ slept' = [slept EXCEPT ![k] = task[k].retry_delay]
    /\ UNCHANGED << supVars, max_orders, stopper, exchVars, md_running, cacheVars,
                    orphans, cancelq, now >>

WatchError(k) == WatchErrorUpTo(k, MaxFeedErrors)

\* the order-book subscription fails, time and again
WatchOrderbookError == WatchErrorUpTo("orderbook", MaxBackoffErrors)

\* the sleep after a failure returns: the delay doubles up to the ceiling
WatchWake(k) ==
    /\ Suspended
    /\ task[k].st = "sleep"
    /\ task' = [task EXCEPT
                   ![k] = [st |-> LoopOrExit,
                           retry_delay |-> Min(task[k].retry_delay * 2,
                                               max_reconnect_delay)]]
    /\ UNCHANGED << supVars, max_orders, stopper, exchVars, md_running, cacheVars,
                    orphans, cancelq, feed_errors, slept, now >>

\* variant: every check reads the order book's timestamp
StaleFeeds_OrderbookStamp ==
    {k \in Feeds :
        last_orderbook_update # NoTime
           /\ now - last_orderbook_update > max_data_age}

\* variant: a feed that never delivered counts as stale
StaleFeeds_NeverUpdated ==
    {k \in Feeds :
        LET last == IF k = "orderbook" THEN last_orderbook_update
                    ELSE IF k = "ticker" THEN last_ticker_update
                    ELSE last_trades_update
        IN  last = NoTime \/ now - last > max_data_age}

\* the feeds the monitor finds stale
StaleFeeds ==
    {k \in Feeds :
        LET last == IF k = "orderbook" THEN last_orderbook_update
                    ELSE IF k = "ticker" THEN last_ticker_update
                    ELSE last_trades_update
        IN  last # NoTime /\ now - last > max_data_age}

\* the cancellations the monitor requests, in the order of its checks
MonitorCancels ==
    SelectSeq(<< << "orderbook", "orphan" >>, << "ticker", "orphan" >>,
                 << "trades", "orphan" >> >>,
              LAMBDA c : c[1] \in StaleFeeds
                            /\ task[c[1]].st \in {"run", "sleep"})

\* monitor_connection, one iteration: for each stale feed cancel the task
\* (if it is not done), without awaiting it, and create a new one; then
\* sleep 1 s.  With running False the loop, and the task, ends.
MonitorTick ==
    /\ Suspended
    /\ task["monitor"].st = "run"
    /\ IF md_running
       THEN /\ \A k \in StaleFeeds : orphans[k] < MaxOrphans
            /\ task' = [k \in Kinds |->
                           IF k \in StaleFeeds THEN NewTask ELSE task[k]]
            /\ orphans' = [k \in Feeds |->
                              IF k \in StaleFeeds
                                    /\ task[k].st \in {"run", "sleep"}
                              THEN orphans[k] + 1 ELSE orphans[k]]
            /\ cancelq' = cancelq \o MonitorCancels
       ELSE /\ task' = [task EXCEPT !["monitor"].st = "done"]
            /\ UNCHANGED << orphans, cancelq >>
    /\ UNCHANGED << supVars, max_orders, stopper, exchVars, md_running, cacheVars,
                    feed_errors, slept, now >>

\* the event loop delivers the oldest requested cancellation: CancelledError
\* is raised at the task's await and, not being an Exception, ends it
DeliverCancel ==
    /\ Suspended
    /\ cancelq # << >>
    /\ LET c == Head(cancelq)
       IN  IF c[2] = "task"
           THEN /\ task' = [task EXCEPT ![c[1]].st = "done"]
                /\ UNCHANGED orphans
           ELSE /\ orphans' = [orphans EXCEPT ![c[1]] = @ - 1]
                /\ UNCHANGED task
    /\ cancelq' = Tail(cancelq)
    /\ UNCHANGED << supVars, max_orders, stopper, exchVars, md_running, cacheVars,
                    feed_errors, slept, now >>

\* time passes
Tick ==
    /\ Suspended
    /\ now + TickSeconds <= MaxTime
    /\ now' = now + TickSeconds
    /\ UNCHANGED << supVars, max_orders, stopper, exchVars, md_running, cacheVars,
                    taskVars, feed_errors, slept >>

-----------------------------------------------------------------------------
(* The specification *)

Init ==
    /\ pc = "init"
    /\ running = FALSE
    /\ retry_count = 0
    /\ exc = "none"
    /\ sleep_dur = 0
    /\ cycle = NoCycle
    /\ place_i = 1
    /\ stop_tasks = << >>
    /\ md_stop_ret = "close"
    /\ failed_attempts = 0
    /\ stop_log = [cancel_attempted |-> FALSE, md_stopped |-> FALSE]
    /\ max_orders \in ConfigMaxOrders
    /\ open_orders \in InitialOpenOrders
    /\ closed = FALSE
    /\ md_running = FALSE
    /\ orderbook = NoneBook
    /\ ticker = NoTicker
    /\ trades = << >>
    /\ last_orderbook_update = NoTime
    /\ last_ticker_update = NoTime
    /\ last_trades_update = NoTime
    /\ task = [k \in Kinds |-> NoTask]
    /\ orphans = [k \in Feeds |-> 0]
    /\ cancelq = << >>
    /\ feed_errors = 0
    /\ slept = [k \in Feeds |-> 0]
    /\ now = 0
    /\ stopper = "none"

Replies == {"ok", "fail"}

\* the supervisor with every reply of the exchange, and the order-book
\* channel; the ticker and trades channels deliver nothing
Next ==
    \/ Start
    \/ OuterTop
    \/ \E r \in {"ok"} \cup ConnectErrors : LoadMarkets(r)
    \/ \E r \in {"ok"} \cup ConnectErrors : ValidateConnection(r)
    \/ \E r \in {"ok"} \cup ConnectErrors : MdStart(r)
    \/ MdStopNext
    \/ MdStopAwait
    \/ LoopTop
    \/ \E r \in PositionReplies : FetchPositions(r)
    \/ \E r \in Replies : UpdateOrdersStep(r)
    \/ Wake
    \/ Stop
    \/ \E r \in Replies : StopCancelAll(r)
    \/ Close
    \/ \E b \in PushedBooks : WatchOrderbook(b)
    \/ \E k \in Feeds : WatchError(k)
    \/ \E k \in Feeds : WatchWake(k)
    \/ MonitorTick
    \/ DeliverCancel
    \/ Tick

Spec == Init /\ [][Next]_vars

\* the whole run of run_strategy.main: start(), then the finally clause
NextRunner ==
    \/ Next
    \/ RunnerStop
    \/ \E r \in Replies : RunnerCancelAll(r)
    \/ RunnerClose

SpecRunner == Init /\ [][NextRunner]_vars

\* the three channels of the data feed, under a supervisor whose exchange
\* calls all succeed, on an account that is flat and has no working order
InitFeed ==
    /\ Init
    /\ max_orders = 10
    /\ open_orders = << >>

NextFeed ==
    \/ Start
    \/ OuterTop
    \/ LoadMarkets("ok")
    \/ ValidateConnection("ok")
    \/ MdStart("ok")
    \/ LoopTop
    \/ FetchPositions([kind |-> "entry", contracts |-> 0])
    \/ UpdateOrdersStep("ok")
    \/ Wake
    \/ \E b \in PushedBooks : WatchOrderbook(b)
    \/ \E t \in PushedTickers : WatchTicker(t)
    \/ \E ts \in PushedTrades : WatchTrades(ts)
    \/ \E k \in Feeds : WatchError(k)
    \/ \E k \in Feeds : WatchWake(k)
    \/ MonitorTick
    \/ DeliverCancel
    \/ Tick

SpecFeed == InitFeed /\ [][NextFeed]_vars

\* the order-book channel alone, failing repeatedly, with the monitor
NextBackoff ==
    \/ Start
    \/ OuterTop
    \/ LoadMarkets("ok")
    \/ ValidateConnection("ok")
    \/ MdStart("ok")
    \/ LoopTop
    \/ FetchPositions([kind |-> "entry", contracts |-> 0])
    \/ UpdateOrdersStep("ok")
    \/ Wake
    \/ \E b \in PushedBooks : WatchOrderbook(b)
    \/ WatchOrderbookError
    \/ WatchWake("orderbook")
    \/ MonitorTick
    \/ DeliverCancel
    \/ Tick

SpecBackoff == InitFeed /\ [][NextBackoff]_vars

\* target sets handed to update_orders: priced limit orders, market orders,
\* limit orders without a price and an order equal to one that is already
\* working, up to MaxTargets of them
TargetOrder ==
    {Order("limit", "buy", 1000000, config_order_size),
     Order("limit", "sell", 1001000, config_order_size),
     Order("market", "buy", NoPrice, config_order_size),
     Order("limit", "sell", NoPrice, config_order_size),
     RestingOrder}
TargetOrderSets == UNION {[1..n -> TargetOrder] : n \in 0..MaxTargets}

\* the main loop calls update_orders(T), T accepted by the risk gate, with
\* a fresh order book cached
InitUpdate ==
    /\ pc = "fetch_open_orders"
    /\ running = TRUE
    /\ retry_count = 0
    /\ exc = "none"
    /\ sleep_dur = 0
    /\ open_orders \in InitialOpenOrders
    /\ max_orders = 10
    /\ \E T \in TargetOrderSets :
          /\ check_risk(T)
          /\ cycle = [NoCycle EXCEPT !.orderbook = ValidBook,
                                     !.position_queried = TRUE,
                                     !.strategy_evaluated = TRUE,
                                     !.called = "calculate_optimal_quotes",
                                     !.target_orders = T,
                                     !.verdict = "accepted",
                                     !.orders_before = open_orders]
    /\ place_i = 1
    /\ stop_tasks = << >>
    /\ md_stop_ret = "close"
    /\ failed_attempts = 0
    /\ stop_log = [cancel_attempted |-> FALSE, md_stopped |-> FALSE]
    /\ closed = FALSE
    /\ md_running = TRUE
    /\ orderbook = ValidBook
    /\ ticker = NoTicker
    /\ trades = << >>
    /\ last_orderbook_update = 0
    /\ last_ticker_update = NoTime
    /\ last_trades_update = NoTime
    /\ task = [k \in Kinds |-> NewTask]
    /\ orphans = [k \in Feeds |-> 0]
    /\ cancelq = << >>
    /\ feed_errors = 0
    /\ slept = [k \in Feeds |-> 0]
    /\ now = 0
    /\ stopper = "none"

\* update_orders alone, with every reply of the exchange
NextUpdate == \E r \in Replies : UpdateOrdersStep(r)

SpecUpdate == InitUpdate /\ [][NextUpdate]_vars

\* the main loop from a call of update_orders(T) on: the replies to the
\* requests, the sleep of the cycle and the cycles that follow
NextCycle ==
    \/ \E r \in Replies : UpdateOrdersStep(r)
    \/ Wake
    \/ LoopTop
    \/ \E r \in {[kind |-> "entry", contracts |-> 0],
                  [kind |-> "fail", contracts |-> 0]} : FetchPositions(r)

SpecCycle == InitUpdate /\ [][NextCycle]_vars

\* update_orders has returned and the sleep of the cycle is over: a later
\* cycle calls update_orders(T) with the set T the risk gate accepted;
\* no further call once more than max_orders orders are working
CallUpdateOrders(T) ==
    /\ pc = "sleep_interval"
    /\ check_risk(T)
    /\ Len(open_orders) <= max_orders
    /\ cycle' = [NoCycle EXCEPT !.orderbook = ValidBook,
                                !.position_queried = TRUE,
                                !.strategy_evaluated = TRUE,
                                !.called = "calculate_optimal_quotes",
                                !.target_orders = T,
                                !.verdict = "accepted",
                                !.orders_before = open_orders]
    /\ place_i' = 1
    /\ Goto("fetch_open_orders")
    /\ UNCHANGED << running, retry_count, exc, stop_tasks, md_stop_ret,
                    failed_attempts, stop_log, max_orders,
                    stopper >>
    /\ UNCHANGED << exchVars, md_running, cacheVars, taskVars, feed_errors,
                    slept, now >>

\* the first call of update_orders(T) of an engine that has no order
\* working, with max_orders as small as the largest target set
InitOrders ==
    /\ pc = "fetch_open_orders"
    /\ running = TRUE
    /\ retry_count = 0
    /\ exc = "none"
    /\ sleep_dur = 0
    /\ open_orders = << >>
    /\ max_orders = MaxTargets
    /\ \E T \in TargetOrderSets :
          /\ check_risk(T)
          /\ cycle = [NoCycle EXCEPT !.orderbook = ValidBook,
                                     !.position_queried = TRUE,
                                     !.strategy_evaluated = TRUE,
                                     !.called = "calculate_optimal_quotes",
                                     !.target_orders = T,
                                     !.verdict = "accepted"]
    /\ place_i = 1
    /\ stop_tasks = << >>
    /\ md_stop_ret = "close"
    /\ failed_attempts = 0
    /\ stop_log = [cancel_attempted |-> FALSE, md_stopped |-> FALSE]
    /\ closed = FALSE
    /\ md_running = TRUE
    /\ orderbook = ValidBook
    /\ ticker = NoTicker
    /\ trades = << >>
    /\ last_orderbook_update = 0
    /\ last_ticker_update = NoTime
    /\ last_trades_update = NoTime
    /\ task = [k \in Kinds |-> NewTask]
    /\ orphans = [k \in Feeds |-> 0]
    /\ cancelq = << >>
    /\ feed_errors = 0
    /\ slept = [k \in Feeds |-> 0]
    /\ now = 0
    /\ stopper = "none"

\* calls of update_orders one after the other, with every reply of the
\* exchange
NextOrders ==
    \/ \E r \in Replies : UpdateOrdersStep(r)
    \/ \E T \in TargetOrderSets : CallUpdateOrders(T)

SpecOrders == InitOrders /\ [][NextOrders]_vars

\* inputs of the strategy: valid order books and inventories
StrategyBooks == {ValidBook, WideBook}
StrategyPositions ==
    {10 * k : k \in -MaxInventory..MaxInventory}
        \cup {-LargeInventory, LargeInventory}

\* a cycle of the main loop has read a valid order book and awaits the
\* position
InitStrategy ==
    /\ pc = "fetch_positions"
    /\ running = TRUE
    /\ retry_count = 0
    /\ exc = "none"
    /\ sleep_dur = 0
    /\ orderbook \in StrategyBooks
    /\ cycle = [NoCycle EXCEPT !.orderbook = orderbook]
    /\ place_i = 1
    /\ stop_tasks = << >>
    /\ md_stop_ret = "close"
    /\ failed_attempts = 0
    /\ stop_log = [cancel_attempted |-> FALSE, md_stopped |-> FALSE]
    /\ max_orders = 10
    /\ open_orders = << >>
    /\ closed = FALSE
    /\ md_running = TRUE
    /\ ticker = NoTicker
    /\ trades = << >>
    /\ last_orderbook_update = 0
    /\ last_ticker_update = NoTime
    /\ last_trades_update = NoTime
    /\ task = [k \in Kinds |-> NewTask]
    /\ orphans = [k \in Feeds |-> 0]
    /\ cancelq = << >>
    /\ feed_errors = 0
    /\ slept = [k \in Feeds |-> 0]
    /\ now = 0
    /\ stopper = "none"

\* the main loop with every inventory the exchange may report
NextStrategy ==
    \/ \E c \in StrategyPositions :
          FetchPositions([kind |-> "entry", contracts |-> c])
    \/ UpdateOrdersStep("ok")
    \/ Wake
    \/ LoopTop

SpecStrategy == InitStrategy /\ [][NextStrategy]_vars

\* calculate_optimal_quotes called on one strategy object, time and again,
\* with any valid book and any inventory; cycle.stored is the object's
\* state from call to call, cycle.self_before its state when the last
\* call began
CalculateOptimalQuotes(ob, current_position) ==
    /\ pc = "calculate_optimal_quotes"
    /\ cycle' = [NoCycle EXCEPT
                    !.orderbook = ob,
                    !.current_position = current_position,
                    !.strategy_evaluated = TRUE,
                    !.called = "calculate_optimal_quotes",
                    !.self_before = cycle.stored,
                    !.quoted = quoted_prices(cycle.stored, ob,
                                             current_position),
                    !.stored = stored_by_quotes(ob, current_position),
                    !.target_orders =
                        calculate_optimal_quotes(ob, current_position)]
    /\ UNCHANGED << pc, running, retry_count, exc, sleep_dur, place_i,
                    stop_tasks, md_stop_ret, failed_attempts, stop_log,
                    max_orders,
                    stopper >>
    /\ UNCHANGED << exchVars, md_running, cacheVars, taskVars, feed_errors,
                    slept, now >>

\* a strategy object as its constructor leaves it, outside the engine
InitQuotes ==
    /\ pc = "calculate_optimal_quotes"
    /\ running = FALSE
    /\ retry_count = 0
    /\ exc = "none"
    /\ sleep_dur = 0
    /\ cycle = NoCycle
    /\ place_i = 1
    /\ stop_tasks = << >>
    /\ md_stop_ret = "close"
    /\ failed_attempts = 0
    /\ stop_log = [cancel_attempted |-> FALSE, md_stopped |-> FALSE]
    /\ max_orders = 10
    /\ open_orders = << >>
    /\ closed = FALSE
    /\ md_running = FALSE
    /\ orderbook = NoneBook
    /\ ticker = NoTicker
    /\ trades = << >>
    /\ last_orderbook_update = NoTime
    /\ last_ticker_update = NoTime
    /\ last_trades_update = NoTime
    /\ task = [k \in Kinds |-> NoTask]
    /\ orphans = [k \in Feeds |-> 0]
    /\ cancelq = << >>
    /\ feed_errors = 0
    /\ slept = [k \in Feeds |-> 0]
    /\ now = 0
    /\ stopper = "none"

\* the inventories of the calls: whole contracts and the large ones
QuotePositions ==
    {c \in StrategyPositions : c % 100 = 0}
        \cup {-LargeInventory, LargeInventory}

NextQuotes ==
    \E ob \in StrategyBooks, c \in QuotePositions :
        CalculateOptimalQuotes(ob, c)

SpecQuotes == InitQuotes /\ [][NextQuotes]_vars

\* order sets handed to check_risk: priced and unpriced orders of either
\* side, of the size the risk configuration allows and of the strategy's
RiskOrder ==
    {Order("limit", sd, pr, am) :
        sd \in {"buy", "sell"},
        pr \in {NoPrice, 1000000, 1001000, 1003000},
        am \in {config_order_size, order_size}}
RiskOrderSets == UNION {[1..n -> RiskOrder] : n \in 0..MaxRiskOrders}
\* int(os.getenv('MAX_ORDERS', '10'))
RiskMaxOrders == {1, 2, 10}

\* check_risk called on an order set
CheckRisk ==
    /\ pc = "check_risk"
    /\ cycle.verdict = "none"
    /\ cycle' = [cycle EXCEPT
                    !.verdict = RiskGate(cycle.target_orders),
                    !.reason = check_risk_reason(cycle.target_orders)]
    /\ UNCHANGED << pc, running, retry_count, exc, sleep_dur, place_i,
                    stop_tasks, md_stop_ret, failed_attempts, stop_log,
                    max_orders,
                    stopper >>
    /\ UNCHANGED << exchVars, md_running, cacheVars, taskVars, feed_errors,
                    slept, now >>

\* a risk manager with its configuration and the order set of one call
InitRisk ==
    /\ pc = "check_risk"
    /\ running = FALSE
    /\ retry_count = 0
    /\ exc = "none"
    /\ sleep_dur = 0
    /\ max_orders \in RiskMaxOrders
    /\ \E T \in RiskOrderSets : cycle = [NoCycle EXCEPT !.target_orders = T]
    /\ place_i = 1
    /\ stop_tasks = << >>
    /\ md_stop_ret = "close"
    /\ failed_attempts = 0
    /\ stop_log = [cancel_attempted |-> FALSE, md_stopped |-> FALSE]
    /\ open_orders = << >>
    /\ closed = FALSE
    /\ md_running = FALSE
    /\ orderbook = NoneBook
    /\ ticker = NoTicker
    /\ trades = << >>
    /\ last_orderbook_update = NoTime
    /\ last_ticker_update = NoTime
    /\ last_trades_update = NoTime
    /\ task = [k \in Kinds |-> NoTask]
    /\ orphans = [k \in Feeds |-> 0]
    /\ cancelq = << >>
    /\ feed_errors = 0
    /\ slept = [k \in Feeds |-> 0]
    /\ now = 0
    /\ stopper = "none"

NextRisk == CheckRisk

SpecRisk == InitRisk /\ [][NextRisk]_vars


-----------------------------------------------------------------------------
(* Phases of the supervisor *)

MainLoopPcs == {"loop_top", "fetch_positions", "fetch_open_orders",
                "cancel_all_orders", "create_order", "sleep_no_orderbook",
                "sleep_interval", "sleep_retry"}
UpdateOrdersPcs == {"fetch_open_orders", "cancel_all_orders", "create_order"}
StopPcs == {"stop", "stop_cancel_all", "md_stop_next", "md_stop_await",
            "close", "stopped"}
\* the supervisor is inside MarketMaker.stop, or past it
InStop ==
    \/ pc \in {"stop", "stop_cancel_all", "close", "stopped"}
    \/ pc \in {"md_stop_next", "md_stop_await"} /\ md_stop_ret = "close"
\* every task of the data feed has terminated
AllTasksTerminated ==
    /\ \A k \in Kinds : task[k].st \in {"none", "done"}
    /\ \A k \in Feeds : orphans[k] = 0
    /\ cancelq = << >>

-----------------------------------------------------------------------------
(* C1 *)

\* C1: update_orders, and with it any cancel or place request, is invoked
\* only in a cycle whose target set check_risk accepted; in a cycle whose
\* verdict is rejected no cancel and no place request is sent and the
\* working orders are as they were when the cycle began.
C1_OrdersOnlyAfterAcceptedVerdict ==
    /\ (pc \in UpdateOrdersPcs \/ cycle.open_queried \/ cycle.cancel_sent
           \/ cycle.place_sent)
          => cycle.verdict = "accepted"
    /\ cycle.verdict = "rejected"
          => /\ ~cycle.open_queried
             /\ ~cycle.cancel_sent
             /\ ~cycle.place_sent
             /\ open_orders = cycle.orders_before

\* a cycle was rejected while orders were working on the exchange
C1_Witness ==
    /\ cycle.verdict = "rejected"
    /\ cycle.strategy_evaluated
    /\ open_orders # << >>
    /\ pc = "loop_top"

-----------------------------------------------------------------------------
(* C2 *)

\* C2: in a cycle where get_orderbook returned absent the supervisor
\* sleeps 1 s and starts over: no position query, no strategy evaluation,
\* no risk check, no open-order query and no cancel or place request
\* belongs to that cycle, and the steps after the read only happen in a
\* cycle that has an order book.
C2_NoOrderbookSkipsCycle ==
    /\ cycle.orderbook.nil
          => /\ ~cycle.position_queried
             /\ ~cycle.strategy_evaluated
             /\ cycle.verdict = "none"
             /\ ~cycle.open_queried
             /\ ~cycle.cancel_sent
             /\ ~cycle.place_sent
    /\ pc \in {"fetch_positions"} \cup UpdateOrdersPcs
          => ~cycle.orderbook.nil
    /\ pc = "sleep_no_orderbook"
          => cycle.orderbook.nil /\ sleep_dur = 1

\* the cycle was skipped because the snapshot in the cache had gone stale
C2_Witness ==
    /\ pc = "sleep_no_orderbook"
    /\ orderbook = ValidBook
    /\ now - last_orderbook_update > max_data_age

-----------------------------------------------------------------------------
(* C3 *)

C3_Old(last_update) ==
    last_update # NoTime /\ now - last_update > max_data_age

C3_ReadersAbsent ==
    /\ C3_Old(last_orderbook_update) => get_orderbook = NoneBook
    /\ C3_Old(last_ticker_update) => get_ticker = NoTicker
    /\ C3_Old(last_trades_update) => get_trades = << >>

C3_MainLoopRead ==
    (pc = "loop_top" /\ running /\ C3_Old(last_orderbook_update))
       => cycle'.orderbook = NoneBook

\* C3: whenever a feed's last update is more than max_data_age before the
\* current time, its reader returns absent (None, or [] for trades), in
\* every state the feed updates, monitor restarts and clock can produce;
\* and the order book the main loop reads in such a state is absent.
C3_StaleSnapshotNeverServed ==
    []C3_ReadersAbsent /\ [][C3_MainLoopRead]_vars

\* all three caches hold a snapshot and all three have gone stale
C3_Witness ==
    /\ orderbook = ValidBook /\ C3_Old(last_orderbook_update)
    /\ ticker # NoTicker /\ C3_Old(last_ticker_update)
    /\ trades # << >> /\ C3_Old(last_trades_update)

-----------------------------------------------------------------------------
(* C4 *)

C4_Sound(ob) ==
    /\ ~ob.nil
    /\ Len(ob.bids) > 0
    /\ Len(ob.asks) > 0
    /\ ob.bids[1][1] < ob.asks[1][1]

C4_CacheSound == orderbook = NoneBook \/ C4_Sound(orderbook)

\* a step that changes the snapshot or its timestamp is not the push of
\* a book that fails the validation
C4_RejectedPushChangesNothing ==
    \/ /\ orderbook' = orderbook
       /\ last_orderbook_update' = last_orderbook_update
    \/ \A b \in PushedBooks : ~(~C4_Sound(b) /\ WatchOrderbook(b))

\* C4: the cached order book is always absent or has both sides non-empty
\* with best bid < best ask; a pushed book that is empty on a side or
\* crossed (best ask <= best bid) changes neither the cached snapshot nor
\* last_orderbook_update.
C4_CachedOrderbookSound ==
    []C4_CacheSound /\ [][C4_RejectedPushChangesNothing]_vars

\* a snapshot is cached, stamped before the current time, and the feed
\* task is awaiting the next push
C4_Witness ==
    /\ orderbook = ValidBook
    /\ last_orderbook_update < now
    /\ task["orderbook"].st = "run"

-----------------------------------------------------------------------------
(* C5 *)

\* C5: the risk gate validates the candidate order set against the
\* position bound before it may reach the exchange: in a cycle whose
\* position read exceeds the position limit in absolute value the
\* candidate set is not accepted, update_orders is not entered and no
\* order is placed.
C5_PositionBoundGatesOrders ==
    (cycle.position_queried
        /\ Abs(cycle.current_position) > position_limit)
       => /\ cycle.verdict # "accepted"
          /\ pc \notin UpdateOrdersPcs
          /\ ~cycle.place_sent

-----------------------------------------------------------------------------
(* C6 *)

\* C6: an error raised inside the main-loop body is caught within that
\* iteration: the supervisor, still running, sleeps the retry delay of 5 s
\* and begins the next iteration; it does not go to stop().
C6_LoopErrorCaughtInIteration ==
    cycle.raised # "none"
       => /\ running
          /\ pc \in {"sleep_retry", "loop_top"}
          /\ pc = "sleep_retry" => sleep_dur = retry_delay

-----------------------------------------------------------------------------
(* C7 *)

\* C7: once load_markets, validate_connection or the start of the data
\* feed has raised AuthenticationError, start() makes no further connection
\* attempt, whatever retry_count is: it is on its way through stop().
C7_AuthenticationErrorIsFinal ==
    exc = "AuthenticationError" => pc \in StopPcs

\* an authentication failure after two failed attempts, and start() over
C7_Witness ==
    /\ exc = "AuthenticationError"
    /\ retry_count = 2
    /\ pc = "stopped"

-----------------------------------------------------------------------------
(* C8 *)

\* C8: a NetworkError or ExchangeError of a connection attempt increments
\* retry_count and is retried after a sleep of 5 s; with retry_count at
\* max_retries = 3 no further attempt is made and start() goes to stop(),
\* so there are never more than 3 consecutive failed attempts; in the main
\* loop, after a successful connect, retry_count is 0.
C8_BoundedConnectRetries ==
    /\ failed_attempts <= max_retries
    /\ retry_count <= max_retries
    /\ pc = "sleep_connect"
          => /\ sleep_dur = retry_delay
             /\ exc \in {"NetworkError", "ExchangeError"}
             /\ retry_count = failed_attempts
             /\ retry_count < max_retries
    /\ retry_count = max_retries => InStop
    /\ pc \in MainLoopPcs => retry_count = 0 /\ failed_attempts = 0

\* the third consecutive failure has stopped the strategy
C8_Witness ==
    /\ retry_count = max_retries
    /\ failed_attempts = max_retries
    /\ exc \in {"NetworkError", "ExchangeError"}
    /\ pc = "stopped"

-----------------------------------------------------------------------------
(* C9 *)

C9_StoppedAfterStop ==
    pc \in {"close", "stopped"}
       => /\ stop_log.cancel_attempted
          /\ stop_log.md_stopped
          /\ ~running
          /\ ~md_running
          /\ \A k \in Kinds : task[k].st \in {"none", "done"}

C9_LeavesThroughStop ==
    (~InStop /\ pc # "init" /\ InStop') => pc' = "stop"

\* C9: start() leaves the connecting and running phases only into stop(),
\* and when the supervisor is about to close the connection or has
\* stopped, cancel_all_orders has been attempted and the data feed has
\* been stopped.
C9_StopAlwaysExecuted ==
    []C9_StoppedAfterStop /\ [][C9_LeavesThroughStop]_vars

\* start() is over after a fatal error in the main loop, the feed's tasks
\* having been cancelled
C9_Witness ==
    /\ pc = "stopped"
    /\ exc = "NameError"
    /\ \A k \in Kinds : task[k].st = "done"

-----------------------------------------------------------------------------
(* C10 *)

\* C10: exchange.close() is called only after MarketData.stop() has
\* cancelled and awaited every task: when the supervisor calls close(), and
\* ever after, no subscription or monitor task is still active.
C10_NoTaskActiveAtClose ==
    (pc = "close" \/ closed) => AllTasksTerminated

\* the connection is closed after a feed whose tasks had been started
C10_Witness ==
    /\ closed
    /\ \A k \in Kinds : task[k].st = "done"
    /\ last_orderbook_update # NoTime

-----------------------------------------------------------------------------
(* C11 *)

\* the phase of the supervisor at position p; the retry loop of start() is
\* CONNECTING both the first time and when it is entered again
C11_Phase(p, ret) ==
    IF p = "init" THEN "INIT"
    ELSE IF p \in MainLoopPcs THEN "RUNNING"
    ELSE IF p \in {"outer_top", "load_markets", "validate_connection",
                   "md_start", "sleep_connect"}
            \/ (p \in {"md_stop_next", "md_stop_await"} /\ ret = "raise")
    THEN "CONNECTING"
    ELSE IF p \in {"stopped", "exited"} THEN "STOPPED"
    ELSE "STOPPING"

C11_Edges ==
    {<< "INIT", "CONNECTING" >>, << "CONNECTING", "RUNNING" >>,
     << "RUNNING", "CONNECTING" >>, << "CONNECTING", "STOPPING" >>,
     << "RUNNING", "STOPPING" >>, << "STOPPING", "STOPPED" >>}

C11_Step ==
    LET from == C11_Phase(pc, md_stop_ret)
        to == C11_Phase(pc', md_stop_ret')
    IN  /\ from = to \/ << from, to >> \in C11_Edges
        /\ (from # "RUNNING" /\ to = "RUNNING")
              => pc = "md_start" /\ md_running'
        /\ from = "STOPPED"
              => /\ to = "STOPPED"
                 /\ open_orders' = open_orders
                 /\ task' = task

\* C11: the supervisor's phase moves only along INIT -> CONNECTING ->
\* RUNNING -> (RECONNECTING <-> RUNNING) -> STOPPING -> STOPPED (a failed
\* connect goes to STOPPING): RUNNING is entered only by a successful start
\* of the data feed, STOPPED only from STOPPING, and from STOPPED there is
\* no further phase, connection attempt, feed start or order operation.
C11_PhaseOrder == [][C11_Step]_vars

-----------------------------------------------------------------------------
(* C12 *)

C12_BeforeFeed ==
    pc \in {"outer_top", "load_markets", "validate_connection", "md_start",
            "sleep_connect"}
       => /\ \A k \in Kinds : task[k].st = "none"
          /\ ~md_running
          /\ cycle = NoCycle

C12_Step ==
    /\ (pc' = "validate_connection" /\ pc # "validate_connection")
          => pc = "load_markets"
    /\ (pc' = "md_start" /\ pc # "md_start") => pc = "validate_connection"
    /\ (pc' \in MainLoopPcs /\ pc \notin MainLoopPcs) => pc = "md_start"
    /\ (\E k \in Kinds : task[k].st = "none" /\ task'[k].st # "none")
          => pc = "md_start"
    /\ \A e \in ConnectErrors :
          (LoadMarkets(e) \/ ValidateConnection(e))
             => /\ pc' \in {"sleep_connect", "stop"}
                /\ task' = task
                /\ cycle' = cycle
                /\ open_orders' = open_orders

\* C12: in a connection attempt validate_connection is called only after
\* load_markets succeeded, the data feed is started only after
\* validate_connection succeeded, and the main loop (the first position
\* query or order operation) is entered only from the started feed; while
\* connecting no feed task exists and no cycle has run, and a failure of
\* load_markets or validate_connection ends the attempt (retry sleep or
\* stop) with no task created and no order operation.
C12_ConnectBeforeFeedAndOrders ==
    []C12_BeforeFeed /\ [][C12_Step]_vars

\* the feed runs and the first position query is out, on an attempt that
\* followed a failed one
C12_Witness ==
    /\ pc = "fetch_positions"
    /\ exc = "NetworkError"
    /\ retry_count = 0
    /\ \A k \in Kinds : task[k].st # "none"

-----------------------------------------------------------------------------
(* C13 *)

C13_Step ==
    (pc' = "loop_top" /\ pc \in MainLoopPcs \ {"loop_top"})
       => /\ pc \in SleepPcs
          /\ cycle.strategy_evaluated
                => pc = "sleep_interval" /\ sleep_dur = order_update_interval

\* C13: the main loop begins a new cycle only out of a timed sleep, and a
\* cycle that evaluated the strategy and the risk gate, whatever the
\* verdict, is followed by the sleep of order_update_interval before the
\* next cycle begins.
C13_CadenceKept == [][C13_Step]_vars

-----------------------------------------------------------------------------
(* C14 *)

\* a step in which feed k's subscription fails and goes to sleep
C14_Fails(k) == task[k].st = "run" /\ task'[k].st = "sleep"

C14_Step ==
    \A k \in Feeds :
        C14_Fails(k)
           => /\ slept'[k] <= 30
              /\ slept'[k] >= slept[k]
              /\ slept'[k] = IF slept[k] = 0 THEN 1
                             ELSE IF 2 * slept[k] <= 30 THEN 2 * slept[k]
                             ELSE 30

\* C14: for each feed, a failure that follows a successful update (or is
\* the first) sleeps 1 s, and a failure that follows another failure with
\* no successful update in between sleeps double the previous delay, at
\* most 30 s: the delays are non-decreasing and never exceed 30 s.
C14_BackoffDoublesToCeiling == [][C14_Step]_vars

-----------------------------------------------------------------------------
(* C15 *)

\* a step in which the current subscription task of feed k finishes
C15_Finishes(k) == task[k].st # "done" /\ task'[k].st = "done"

C15_AliveWhileRunning ==
    md_running => \A k \in Feeds : task[k].st \in {"run", "sleep"}

C15_Step ==
    \A k \in Feeds :
        /\ C14_Fails(k) => task'[k].retry_delay = task[k].retry_delay
        /\ (task[k].st = "sleep" /\ task'[k].st # "sleep" /\ md_running')
              => task'[k].st = "run"
        /\ C15_Finishes(k)
              => /\ ~md_running
                 /\ task[k].st \in {"cancelling", "run", "sleep"}

-----------------------------------------------------------------------------
(* C16 *)

C16_LastUpdate(k) ==
    IF k = "orderbook" THEN last_orderbook_update
    ELSE IF k = "ticker" THEN last_ticker_update
    ELSE last_trades_update

C16_Old(k) ==
    C16_LastUpdate(k) # NoTime /\ now - C16_LastUpdate(k) > max_data_age

C16_Step ==
    (MonitorTick /\ md_running)
       => \A k \in Feeds :
             IF C16_Old(k)
             THEN /\ task'[k] = [st |-> "run", retry_delay |-> 1]
                  /\ task[k].st \in {"run", "sleep"}
                        => /\ orphans'[k] = orphans[k] + 1
                           /\ \E i \in 1..Len(cancelq') :
                                 /\ i > Len(cancelq)
                                 /\ cancelq'[i] = << k, "orphan" >>
             ELSE /\ task'[k] = task[k]
                  /\ orphans'[k] = orphans[k]

-----------------------------------------------------------------------------
(* C17 *)

\* the tasks of feed k that have been created and have not terminated
C17_Active(k) ==
    (IF task[k].st \in {"none", "done"} THEN 0 ELSE 1) + orphans[k]

\* C17: at every moment each feed has at most one subscription task that
\* has not terminated: a replacement is started only when the cancelled
\* task has ended.
C17_OneSubscriberPerFeed == \A k \in Feeds : C17_Active(k) <= 1

-----------------------------------------------------------------------------
(* C18 *)

\* the cache of feed k as a reader finds it: the snapshot and its timestamp
C18_Cache(k) ==
    IF k = "orderbook" THEN << orderbook, last_orderbook_update >>
    ELSE IF k = "ticker" THEN << ticker, last_ticker_update >>
    ELSE << trades, last_trades_update >>

\* nothing has been written, or a snapshot and the time of its arrival
C18_Whole(k) ==
    LET snapshot == C18_Cache(k)[1]
        stamp == C18_Cache(k)[2]
    IN  IF stamp = NoTime
        THEN \/ k = "orderbook" /\ snapshot = NoneBook
             \/ k = "ticker" /\ snapshot = NoTicker
             \/ k = "trades" /\ snapshot = << >>
        ELSE /\ stamp <= now
             /\ \/ k = "orderbook" /\ validate_orderbook(orderbook)
                \/ k = "ticker" /\ snapshot \in PushedTickers
                \/ k = "trades"
                      /\ snapshot \in {Last(ts, trades_kept) :
                                          ts \in PushedTrades}

\* a step leaves a feed's cache alone or replaces the snapshot and the
\* timestamp together, and what the main loop reads is the whole cache
C18_Step ==
    /\ \A k \in Feeds :
          C18_Cache(k)' # C18_Cache(k) =>
              task[k].st = "run" /\ C18_Cache(k)'[2] = now
    /\ (pc = "loop_top" /\ running) =>
          cycle'.orderbook \in {NoneBook, orderbook}

\* C18: for each feed the cached snapshot and its last-update timestamp are
\* replaced in one step, so a reader finds, under every interleaving of the
\* subscription tasks, the monitor and the main loop, a snapshot together
\* with the timestamp of its own arrival, never one without the other.
C18_NoTornSnapshot ==
    [](\A k \in Feeds : C18_Whole(k)) /\ [][C18_Step]_vars

\* each feed has cached a snapshot, the ticker's a tick after the order
\* book's, and the main loop has read the order book
C18_Witness ==
    /\ pc = "fetch_positions"
    /\ cycle.orderbook = ValidBook
    /\ last_orderbook_update = 0
    /\ ticker \in PushedTickers
    /\ last_ticker_update = TickSeconds
    /\ trades # << >>
    /\ last_trades_update # NoTime

-----------------------------------------------------------------------------
(* C19 *)

\* the step in which MarketData.stop returns to its caller
C19_Returns ==
    pc = "md_stop_next" /\ pc' \notin {"md_stop_next", "md_stop_await"}

\* a task of kind k is created
C19_Started(k) ==
    task[k].st \in {"none", "done"} /\ task'[k].st \notin {"none", "done"}

C19_Step ==
    /\ C19_Returns => AllTasksTerminated'
    /\ \A k \in Kinds : (~md_running /\ C19_Started(k)) => pc = "md_start"

\* C19: MarketData.stop cancels the three subscription tasks and the
\* monitor task and awaits each of them: when it returns, every
\* subscription and monitor task of the feed, the replaced ones included,
\* has terminated, and from its first statement on no task is created
\* unless MarketData.start is called anew.
C19_StopTerminatesEveryTask == [][C19_Step]_vars

\* MarketData.stop has returned to MarketMaker.stop after ending the four
\* tasks of a feed whose order book had gone stale
C19_Witness ==
    /\ pc = "close"
    /\ stop_log.md_stopped
    /\ \A k \in Kinds : task[k].st = "done"
    /\ last_orderbook_update = 0
    /\ now = MaxTime

-----------------------------------------------------------------------------
(* C20 *)

\* the first order of the target set for which update_orders has yet to
\* issue a place request
C20_NextOrder == IF pc = "create_order" THEN place_i + 1 ELSE 1

\* one step of update_orders: a reply of the exchange arrives
C20_Step ==
    (pc \in UpdateOrdersPcs /\ << pc, place_i >>' # << pc, place_i >>) =>
        \* cancel-all if and only if the query returned an order
        /\ pc = "fetch_open_orders" =>
              (pc' = "cancel_all_orders" <=> cycle'.current_orders # << >>)
        \* then one place request for each order of T, in turn
        /\ pc' # "cancel_all_orders" =>
              IF C20_NextOrder <= Len(cycle.target_orders)
              THEN pc' = "create_order" /\ place_i' = C20_NextOrder
              ELSE pc' = "sleep_interval"
        \* every request succeeded: the working orders are exactly T
        /\ (pc' = "sleep_interval" /\ ~cycle'.request_failed) =>
              open_orders' = cycle.target_orders

\* C20: update_orders(T) first queries the open orders, then issues
\* cancel-all if and only if the query returned at least one order, then
\* issues one place request for every order of T; when every request
\* succeeds the working orders are exactly T; no cancel or place is issued
\* before the open-order query.
C20_FullReplace ==
    /\ []((cycle.cancel_sent \/ cycle.place_sent) => cycle.open_queried)
    /\ [][C20_Step]_vars

-----------------------------------------------------------------------------
(* C21 *)

\* the key orders are matched on
C21_Key(o) == << o.side, o.price, o.amount >>
C21_Keys(orders) == {C21_Key(orders[i]) : i \in 1..Len(orders)}

\* the orders of a that match no order of b, with multiplicity
C21_Unmatched(a, b) ==
    Cardinality({i \in 1..Len(a) : C21_Key(a[i]) \notin C21_Keys(b)})

\* update_orders returns: C is what the query returned, T the target set
C21_Step ==
    (pc \in UpdateOrdersPcs /\ pc' = "sleep_interval") =>
        LET C == cycle'.current_orders
            T == cycle'.target_orders
            both == C21_Keys(C) \cap C21_Keys(T)
        IN  /\ Len(cycle'.cancelled) + Len(cycle'.placed)
                  = C21_Unmatched(C, T) + C21_Unmatched(T, C)
            /\ C21_Keys(cycle'.cancelled) \cap both = {}
            /\ C21_Keys(cycle'.placed) \cap both = {}

\* C21: given the open orders C and the target set T, the cancel and place
\* operations update_orders issues number |C \ T| + |T \ C| under matching
\* on (side, price, size), and an order in both C and T is neither
\* cancelled nor placed again; an unchanged target causes no operation.
C21_MinimalDiff == [][C21_Step]_vars

-----------------------------------------------------------------------------
(* C22 *)

\* update_orders leaves the operation in progress, a cancel-all or the
\* placement of one order, although the exchange has not carried it out
C22_GivesUp ==
    /\ pc \in {"cancel_all_orders", "create_order"}
    /\ << pc, place_i >>' # << pc, place_i >>
    /\ open_orders' = open_orders

\* C22: a placement or a cancellation that fails is tried again, a fixed
\* small number of times (order_max_retries) with a short fixed delay, and
\* never more often than that: update_orders gives an operation up only
\* when its attempts are used up.
C22_BoundedOrderRetries ==
    /\ [](cycle.attempts <= order_max_retries)
    /\ [][C22_GivesUp => cycle.attempts = order_max_retries]_vars

-----------------------------------------------------------------------------
(* C23 *)

\* a reply to a request of update_orders arrives
C23_Reply == pc \in UpdateOrdersPcs /\ << pc, place_i >>' # << pc, place_i >>

C23_Step ==
    \* whatever the reply, update_orders goes on and the loop keeps running
    /\ C23_Reply =>
          /\ pc' \in {"cancel_all_orders", "create_order", "sleep_interval"}
          /\ running' /\ exc' = exc /\ retry_count' = retry_count
    \* when it returns, create_order has been called for every order of T:
    \* a place request was sent for each order it accepts
    /\ (C23_Reply /\ pc' = "sleep_interval") =>
          cycle'.placed = SelectSeq(cycle.target_orders, reaches_exchange)
    \* the loop proceeds to its next cycle, which starts afresh
    /\ pc = "sleep_interval" => pc' \in {"sleep_interval", "loop_top"}
    /\ (pc = "loop_top" /\ pc' # pc) =>
          ~cycle'.open_queried /\ ~cycle'.strategy_evaluated
             /\ cycle'.placed = << >>

\* C23: a placement or cancellation that fails is not fatal: update_orders
\* still attempts every remaining target order, the main loop proceeds to
\* its next cycle, which queries the open orders and evaluates the target
\* again before it sends any request, and the supervisor stays in its
\* running loop.
C23_OrderFailureNotFatal ==
    /\ [](pc \in {"cancel_all_orders", "create_order"} =>
             cycle.open_queried /\ cycle.strategy_evaluated /\ running)
    /\ [][C23_Step]_vars

\* update_orders has returned: the first of two placements failed, the
\* second was sent all the same and succeeded
C23_Witness ==
    /\ pc = "sleep_interval"
    /\ cycle.request_failed
    /\ Len(cycle.target_orders) = 2
    /\ cycle.placed = cycle.target_orders
    /\ cycle.orders_before = << >>
    /\ open_orders = << cycle.target_orders[2] >>

-----------------------------------------------------------------------------
(* C24 *)

\* the orders come from calculate_rebalance_orders: limit orders without a
\* price, all on one side
C24_RebalanceOrders(orders) ==
    \A i \in 1..Len(orders) :
        orders[i].price = NoPrice /\ orders[i].side = orders[1].side

\* the orders are a two-sided quote
C24_TwoSided(orders) ==
    \E i, j \in 1..Len(orders) :
        orders[i].side = "buy" /\ orders[j].side = "sell"

\* C24: in each cycle the target set comes from exactly one of the two
\* strategy paths: calculate_rebalance_orders alone when
\* should_rebalance(position) is true, calculate_optimal_quotes alone
\* otherwise; no target set holds rebalance orders and a two-sided quote.
C24_OneStrategyPath ==
    cycle.strategy_evaluated =>
        /\ IF Abs(cycle.current_position - inventory_target)
                  * rebalance_threshold_den
                  > rebalance_threshold_num * inventory_limit
           THEN /\ cycle.called = "calculate_rebalance_orders"
                /\ cycle.target_orders =
                       calculate_rebalance_orders(cycle.current_position)
                /\ C24_RebalanceOrders(cycle.target_orders)
           ELSE /\ cycle.called = "calculate_optimal_quotes"
                /\ cycle.target_orders =
                       calculate_optimal_quotes(cycle.orderbook,
                                                cycle.current_position)
        /\ ~(C24_TwoSided(cycle.target_orders)
                /\ \E i \in 1..Len(cycle.target_orders) :
                      cycle.target_orders[i].price = NoPrice)

\* a cycle whose position is beyond the rebalance threshold has taken the
\* rebalance path and is about to update the orders
C24_Witness ==
    /\ pc = "fetch_open_orders"
    /\ cycle.current_position = 110
    /\ cycle.called = "calculate_rebalance_orders"

-----------------------------------------------------------------------------
(* C25 *)

\* what should_rebalance returned in this cycle
C25_Returned == cycle.called = "calculate_rebalance_orders"

\* C25: should_rebalance(position) is true if and only if
\* |position - inventory_target| > rebalance_threshold * inventory_limit;
\* a deviation equal to the threshold does not trigger rebalancing.
C25_RebalanceIffBeyondThreshold ==
    cycle.strategy_evaluated =>
        LET deviation == Abs(cycle.current_position - inventory_target)
        IN  /\ C25_Returned <=>
                  deviation * rebalance_threshold_den
                      > rebalance_threshold_num * inventory_limit
            /\ deviation * rebalance_threshold_den
                   = rebalance_threshold_num * inventory_limit
                 => ~C25_Returned

\* the position deviates from the target by exactly the threshold and the
\* cycle has not rebalanced
C25_Witness ==
    /\ cycle.strategy_evaluated
    /\ Abs(cycle.current_position - inventory_target)
           * rebalance_threshold_den
         = rebalance_threshold_num * inventory_limit
    /\ cycle.called = "calculate_optimal_quotes"

-----------------------------------------------------------------------------
(* C26 *)

\* ceil(a / b) for a >= 0, b > 0
C26_Ceil(a, b) == (a + b - 1) \div b

\* C26: calculate_rebalance_orders(position) emits exactly
\* ceil(|inventory_target - position| / order_size) orders, all market
\* orders of size order_size on one side: buy if inventory_target is above
\* the position, sell otherwise.
C26_RebalanceOrders ==
    cycle.called = "calculate_rebalance_orders" =>
        LET orders == cycle.target_orders
            diff == inventory_target - cycle.current_position
        IN  /\ Len(orders) = C26_Ceil(Abs(diff), order_size)
            /\ \A i \in 1..Len(orders) :
                  /\ orders[i].type = "market"
                  /\ orders[i].amount = order_size
                  /\ orders[i].side = IF diff > 0 THEN "buy" ELSE "sell"

-----------------------------------------------------------------------------
(* C27 *)

\* the orders of one side
C27_Side(orders, side) == {i \in 1..Len(orders) : orders[i].side = side}

\* C27: for every valid order book and every inventory,
\* calculate_optimal_quotes returns exactly one buy quote and one sell
\* quote, each of size order_size, never one side alone.
C27_TwoSidedQuote ==
    (cycle.called = "calculate_optimal_quotes"
        /\ validate_orderbook(cycle.orderbook)) =>
        LET orders == cycle.target_orders
        IN  /\ Len(orders) = 2
            /\ Cardinality(C27_Side(orders, "buy")) = 1
            /\ Cardinality(C27_Side(orders, "sell")) = 1
            /\ \A i \in 1..Len(orders) : orders[i].amount = order_size

-----------------------------------------------------------------------------
(* C28 *)

\* the call computed a bid and an ask from a valid book
C28_Quoted ==
    /\ cycle.called = "calculate_optimal_quotes"
    /\ validate_orderbook(cycle.orderbook)
    /\ cycle.orderbook.bids[1][1] < cycle.orderbook.asks[1][1]

\* C28: for every valid order book (best_bid < best_ask) and every
\* inventory, the bid and the ask calculate_optimal_quotes computes satisfy
\* bid < ask, bid >= best_bid * (1 - max_spread_ratio) and
\* ask <= best_ask * (1 + max_spread_ratio), the recentred ones included.
C28_QuotesWithinClamp ==
    C28_Quoted =>
        LET best_bid == cycle.orderbook.bids[1][1]
            best_ask == cycle.orderbook.asks[1][1]
        IN  /\ cycle.quoted.bid < cycle.quoted.ask
            /\ cycle.quoted.bid * 100 >= best_bid * 99
            /\ cycle.quoted.ask * 100 <= best_ask * 101

-----------------------------------------------------------------------------
(* C29 *)

\* C29: for every bid and ask calculate_optimal_quotes computes,
\* (ask - bid) / bid >= min_profit_ratio (0.0005), also when the quotes
\* were clamped and then recentred around the mid price.
C29_ProfitFloor ==
    C28_Quoted =>
        (cycle.quoted.ask - cycle.quoted.bid) * 10000
            >= 5 * cycle.quoted.bid

-----------------------------------------------------------------------------
(* C30 *)

\* a call of calculate_optimal_quotes computes, and returns, what a call
\* with the same arguments on a newly constructed strategy does
C30_Step ==
    cycle'.called = "calculate_optimal_quotes" =>
        /\ cycle'.quoted = quoted_prices(NewStrategy, cycle'.orderbook,
                                         cycle'.current_position)
        /\ cycle'.target_orders =
               calculate_optimal_quotes(cycle'.orderbook,
                                        cycle'.current_position)

-----------------------------------------------------------------------------
(* C31 *)

\* check_risk has answered for the order set of the call
C31_Checked == pc = "check_risk" /\ cycle.verdict # "none"

\* C31: check_risk rejects every order set with more than max_orders
\* orders, whatever the sides, prices (None included) and sizes of the
\* orders, and a set of exactly max_orders orders is not rejected for its
\* count.
C31_CountBound ==
    C31_Checked =>
        /\ Len(cycle.target_orders) > max_orders =>
               /\ cycle.verdict = "rejected"
               /\ cycle.reason = "Too many orders"
        /\ Len(cycle.target_orders) = max_orders =>
               cycle.reason # "Too many orders"

\* three orders within every other bound, one of them without a price,
\* rejected with max_orders = 2
C31_Witness ==
    /\ C31_Checked
    /\ max_orders = 2
    /\ cycle.target_orders =
           << Order("limit", "buy", 1000000, config_order_size),
              Order("limit", "sell", 1001000, config_order_size),
              Order("limit", "sell", NoPrice, config_order_size) >>
    /\ cycle.verdict = "rejected"

-----------------------------------------------------------------------------
(* C32 *)

\* the set has a buy and a sell
C32_TwoSided(orders) ==
    Prices(orders, "buy") # {} /\ Prices(orders, "sell") # {}

\* the spread of a two-sided set can be computed
C32_Priced(orders) ==
    /\ NoPrice \notin (Prices(orders, "buy") \cup Prices(orders, "sell"))
    /\ MaxOf(Prices(orders, "buy")) > 0

\* min_spread <= (lowest sell - highest buy) / highest buy <= max_spread
C32_SpreadWithin(orders) ==
    LET best_bid == MaxOf(Prices(orders, "buy"))
        best_ask == MinOf(Prices(orders, "sell"))
    IN  /\ (best_ask - best_bid) * spread_den >= min_spread_num * best_bid
        /\ (best_ask - best_bid) * spread_den <= max_spread_num * best_bid

\* C32: check_risk accepts an order set if and only if its count is at
\* most max_orders, every order's size is at most the configured maximum
\* order size, and, when it has both a buy and a sell, its spread lies
\* between min_spread and max_spread; a one-sided or empty set is not
\* subject to the spread check.
C32_AcceptsIffWithinBounds ==
    LET orders == cycle.target_orders
    IN  (C31_Checked /\ (C32_TwoSided(orders) => C32_Priced(orders))) =>
            (cycle.verdict = "accepted" <=>
                /\ Len(orders) <= max_orders
                /\ \A i \in 1..Len(orders) :
                       orders[i].amount <= risk_max_order_size
                /\ C32_TwoSided(orders) => C32_SpreadWithin(orders))

-----------------------------------------------------------------------------
(* C33 *)

\* the check a logged reason belongs to
C33_CheckOf(reason) ==
    IF reason = "Too many orders" THEN "order-count"
    ELSE IF reason = "Order size too large" THEN "order-size"
    ELSE IF reason \in {"Spread too small", "Spread too large"}
    THEN "spread"
    ELSE reason

\* the first of the three checks, in the order count, sizes, spread, that
\* the set fails; the size check is the comparison check_risk makes
C33_FirstFailing(orders) ==
    IF Len(orders) > max_orders THEN "order-count"
    ELSE IF \E i \in 1..Len(orders) : orders[i].amount > config_order_size
    THEN "order-size"
    ELSE IF C32_TwoSided(orders) /\ ~C32_SpreadWithin(orders)
    THEN "spread"
    ELSE "none"

\* C33: check_risk evaluates the order count, then the order sizes, then
\* the spread, and stops at the first check that fails; every rejection
\* has a reason, which is that of the first failing check (a set with
\* more than max_orders orders is rejected for its count even if a size
\* or the spread is out of bounds too).
C33_FirstFailingCheckIsTheReason ==
    LET orders == cycle.target_orders
    IN  C31_Checked =>
            /\ cycle.verdict = "rejected" <=> cycle.reason # "none"
            /\ (C32_TwoSided(orders) => C32_Priced(orders)) =>
                   C33_CheckOf(cycle.reason) = C33_FirstFailing(orders)

\* three orders with max_orders = 2, one of them too large and the spread
\* of the set above max_spread: rejected for the count
C33_Witness ==
    /\ C31_Checked
    /\ max_orders = 2
    /\ cycle.target_orders =
           << Order("limit", "buy", 1000000, order_size),
              Order("limit", "sell", 1003000, config_order_size),
              Order("limit", "sell", 1003000, config_order_size) >>
    /\ cycle.verdict = "rejected"
    /\ cycle.reason = "Too many orders"

-----------------------------------------------------------------------------
(* C34 *)

-----------------------------------------------------------------------------
(* C35 *)

\* calculate_optimal_quotes was called in this cycle and returned [],
\* under a count bound that admits a set
C35_QuotesFailed ==
    /\ pc \in MainLoopPcs
    /\ max_orders >= 0
    /\ cycle.called = "calculate_optimal_quotes"
    /\ cycle.target_orders = << >>

\* update_orders has returned in this cycle
C35_Updated == pc = "sleep_interval"

\* C35: an empty target set is accepted by check_risk, and
\* update_orders([]) cancels all working orders and places none: a cycle
\* in which calculate_optimal_quotes fails and returns [] ends with every
\* working order of the engine cancelled.
C35_EmptySetCancelsAll ==
    C35_QuotesFailed =>
        /\ cycle.verdict = "accepted"
        /\ C35_Updated => (cycle.placed = << >> /\ open_orders = << >>)

-----------------------------------------------------------------------------
(* C36 *)

\* the cycle took the rebalance path
C36_Rebalancing ==
    pc \in MainLoopPcs /\ cycle.called = "calculate_rebalance_orders"

-----------------------------------------------------------------------------
(* C37 *)

\* get_positions answered an empty mapping in this cycle
C37_NoPosition == pc \in MainLoopPcs /\ cycle.positions = "empty"

\* C37: when the position query fails, or returns no entry for the
\* symbol, get_positions answers an empty mapping and the main loop does
\* not skip the cycle: it goes on with current_position = 0, so that
\* should_rebalance and the quotes are evaluated as for a flat inventory.
C37_FailedPositionReadsFlat ==
    C37_NoPosition =>
        /\ cycle.raised = "none"
        /\ cycle.current_position = 0
        /\ cycle.strategy_evaluated
        /\ cycle.called = StrategyBranch(0)
        /\ cycle.quoted = quoted_prices(NewStrategy, cycle.orderbook, 0)
        /\ cycle.verdict # "none"
        /\ cycle.verdict = "accepted" =>
               pc \in UpdateOrdersPcs \cup {"sleep_interval", "loop_top"}

\* a cycle whose position query gave nothing has quoted around the mid
\* price of 100.0/100.1 without skew and is in update_orders
C37_Witness ==
    /\ C37_NoPosition
    /\ pc = "fetch_open_orders"
    /\ cycle.called = "calculate_optimal_quotes"
    /\ cycle.quoted = [bid |-> 999495, ask |-> 1001505]

-----------------------------------------------------------------------------
(* A call of MarketMaker.stop() concurrent with start() *)

\* MarketMaker.stop() called by another coroutine while start() is
\* suspended in its main loop: running = False, then cancel_all_orders()
\* is awaited
ExtStop ==
    /\ stopper = "none"
    /\ pc \in MainLoopPcs
    /\ Suspended
    /\ running' = FALSE
    /\ stop_log' = [stop_log EXCEPT !.cancel_attempted = TRUE]
    /\ stopper' = "cancel_all_orders"
    /\ UNCHANGED << pc, retry_count, exc, sleep_dur, cycle, place_i,
                    stop_tasks, md_stop_ret, failed_attempts, max_orders >>
    /\ UNCHANGED << exchVars, md_running, cacheVars, taskVars, feed_errors,
                    slept, now >>

\* that call's cancel_all_orders() returns (an error is caught and
\* logged); then market_data.stop(): running = False, the tasks are
\* collected and cancelled.  The feed does not run in SpecStop, so the
\* collected tasks are shown terminated at once
ExtCancelAll(reply) ==
    /\ stopper = "cancel_all_orders"
    /\ Suspended
    /\ open_orders' = IF reply = "ok" THEN << >> ELSE open_orders
    /\ md_running' = FALSE
    /\ task' = [k \in Kinds |->
                   IF task[k].st \in {"none", "done"} THEN task[k]
                   ELSE [task[k] EXCEPT !.st = "done"]]
    /\ stopper' = "market_data_stop"
    /\ UNCHANGED << supVars, max_orders, closed, cacheVars, orphans,
                    cancelq, feed_errors, slept, now >>

\* the last await of market_data.stop() returns; exchange.close() is
\* awaited
ExtMdStop ==
    /\ stopper = "market_data_stop"
    /\ Suspended
    /\ stop_log' = [stop_log EXCEPT !.md_stopped = TRUE]
    /\ stopper' = "close"
    /\ UNCHANGED << pc, running, retry_count, exc, sleep_dur, cycle,
                    place_i, stop_tasks, md_stop_ret, failed_attempts,
                    max_orders >>
    /\ UNCHANGED << exchVars, md_running, cacheVars, taskVars, feed_errors,
                    slept, now >>

\* exchange.close() returns and so does that call of stop()
ExtClose ==
    /\ stopper = "close"
    /\ Suspended
    /\ closed' = TRUE
    /\ stopper' = "returned"
    /\ UNCHANGED << supVars, max_orders, open_orders, md_running, cacheVars,
                    taskVars, feed_errors, slept, now >>

\* replies of the exchange to a connection attempt
StopReplies == {"ok", "NetworkError"}

\* start() inside a call of update_orders(T) with no working order
InitStop ==
    /\ InitUpdate
    /\ open_orders = << >>
    /\ Len(cycle.target_orders) = MaxTargets

\* start() from there on, and one call of stop() by another coroutine
NextStop ==
    \/ OuterTop
    \/ \E r \in StopReplies : LoadMarkets(r)
    \/ \E r \in StopReplies : ValidateConnection(r)
    \/ \E r \in StopReplies : MdStart(r)
    \/ MdStopNext
    \/ MdStopAwait
    \/ LoopTop
    \/ FetchPositions([kind |-> "entry", contracts |-> 0])
    \/ \E r \in Replies : UpdateOrdersStep(r)
    \/ Wake
    \/ Stop
    \/ \E r \in Replies : StopCancelAll(r)
    \/ Close
    \/ DeliverCancel
    \/ ExtStop
    \/ \E r \in Replies : ExtCancelAll(r)
    \/ ExtMdStop
    \/ ExtClose

SpecStop == InitStop /\ [][NextStop]_vars

-----------------------------------------------------------------------------
(* C38 *)

\* start() is in a new connection attempt or starting the feed
C38_Connecting == pc \in {"load_markets", "validate_connection", "md_start"}

\* C38: if stop() is called while start() is in its running loop, then
\* after the inner loop has seen running = False, start() makes no new
\* connection attempt and does not start the DataFeed again.
C38_NoReconnectAfterStop == stopper # "none" => ~C38_Connecting

-----------------------------------------------------------------------------
(* C39 *)

\* this step sends a create_order request
C39_PlaceRequest == Len(cycle'.placed) > Len(cycle.placed)

-----------------------------------------------------------------------------
(* C40 *)

\* the last-update timestamp of a feed
C40_LastUpdate(k) ==
    IF k = "orderbook" THEN last_orderbook_update
    ELSE IF k = "ticker" THEN last_ticker_update
    ELSE last_trades_update

\* what the reader of a feed returns is the value the cache was built with
C40_ReadsInitial(k) ==
    IF k = "orderbook" THEN get_orderbook = NoneBook
    ELSE IF k = "ticker" THEN get_ticker = NoTicker
    ELSE get_trades = << >>

\* this step cancels the task of a feed or puts a new task in its place
C40_Restarted(k) ==
    \/ orphans'[k] > orphans[k]
    \/ Len(SelectSeq(cancelq', LAMBDA c : c[1] = k))
          > Len(SelectSeq(cancelq, LAMBDA c : c[1] = k))
    \/ task[k].st = "done" /\ task'[k].st # "done"

\* C40: a feed whose last-update timestamp is still None is never
\* cancelled or restarted by the monitor, and its reader returns the
\* initial empty value, however much time has passed.
C40_NeverUpdatedFeedIsLeftAlone ==
    /\ [](\A k \in Feeds :
             C40_LastUpdate(k) = NoTime => C40_ReadsInitial(k))
    /\ [][\A k \in Feeds :
             C40_LastUpdate(k) = NoTime => ~C40_Restarted(k)]_vars

\* the monitor has restarted the order-book feed as stale while the
\* ticker feed, older than max_data_age, has never delivered and still
\* runs its first task
C40_Witness ==
    /\ last_ticker_update = NoTime
    /\ now > max_data_age
    /\ orphans["orderbook"] > 0
    /\ orphans["ticker"] = 0
    /\ task["ticker"].st = "run"
    /\ task["monitor"].st = "run"

=============================================================================
